---- MODULE Spec2Model ----
(***************************************************************************)
(* A model of caliban/cluster/cluster.py: the Cluster handle (connection   *)
(* state, the `connected` guard around every remote operation) and the     *)
(* job submission pipeline (_job_submit) built on top of it.               *)
(*                                                                         *)
(* Python is single threaded here and every remote call blocks, so each    *)
(* public method is one atomic action.  Whatever the remote services       *)
(* answer is an input of the action, drawn with \E from a small set.       *)
(* Python's None is the string "None"; return values are strings, so that  *)
(* None, False and result objects can be compared with each other.         *)
(***************************************************************************)
EXTENDS Integers, Sequences, FiniteSets, TLC

VARIABLES
    cluster,    \* the Cluster instance: name, zone, gcp_cluster, api, connected
    last,       \* what the most recent method call on the handle did
    pc,         \* position of _job_submit (with its decorators)
    args,       \* the argument dictionary of the _job_submit run
    gpu_spec,   \* _job_submit's local gpu_spec (args' value, or the default)
    jobs,       \* the job generator: the jobs of the experiments not yet consumed
    submitted,  \* _job_submit's list of submitted jobs (under direct calls: the
                \* jobs the current pass over the generator was given)
    events,     \* remote calls and external work issued by the pipeline, in order
    attempts,   \* the jobs passed to cluster.submit_job and how each call ended
                \* (under direct calls: the finished passes over the generator)
    checks,     \* what the connection and the validations of the run returned
    result      \* what _job_submit returned

vars == <<cluster, last, pc, args, gpu_spec, jobs, submitted, events, attempts,
          checks, result>>

None == "None"

(***************************************************************************)
(* Bounds of the model.                                                    *)
(***************************************************************************)
MaxListed == 2        \* longest cluster listing the cluster API answers with
MaxPolls == 3         \* longest scripted answer sequence of the operations API
MaxExperiments == 3   \* most experiments of one _job_submit run
MaxGpuCount == 2      \* largest GPU count requested or reported as a limit
MaxTpuTypes == 2      \* longest list of TPU types the TPU API answers with
MaxPasses == 2        \* most passes made over one job generator
MaxNameLen == 3       \* longest job name drawn from the name alphabet
MaxQuotas == 2        \* longest quota list the compute API answers with

ClusterNames == {"blueshift", "other"}
Zones == {"us-central1-a", "us-central1-b"}
_ZONE_DEFAULT == "-"

\* the GCPCluster descriptors the cluster API can report; names are unique
\* within a zone only
GCPClusters == [name : ClusterNames, zone : Zones]
NoneCluster == [name |-> None, zone |-> None]

RECURSIVE SeqsUpTo(_, _)
SeqsUpTo(S, n) ==
    IF n = 0 THEN {<<>>}
    ELSE LET shorter == SeqsUpTo(S, n - 1)
         IN shorter \cup {Append(s, x) : s \in {t \in shorter : Len(t) = n - 1}, x \in S}

NoDuplicates(s) == \A i, j \in 1..Len(s) : i # j => s[i] # s[j]

Range(s) == {s[i] : i \in 1..Len(s)}

\* what list_clusters(project_id, zone) can answer: an error (trapped by _k
\* and turned into None), or the clusters of that zone ('-' = all zones)
ClusterLists == {t \in SeqsUpTo(GCPClusters, MaxListed) : NoDuplicates(t)}

NoListing == [ok |-> FALSE, clusters |-> <<>>]

ListingsFor(zone) ==
    {NoListing} \cup
    {[ok |-> TRUE, clusters |-> s] :
        s \in {t \in ClusterLists :
                 \A i \in 1..Len(t) : zone = _ZONE_DEFAULT \/ t[i].zone = zone}}

(***************************************************************************)
(* Cluster.__init__                                                        *)
(***************************************************************************)
NewCluster(name, zone) ==
    [name |-> name, zone |-> zone, gcp_cluster |-> NoneCluster,
     api |-> NoneCluster, connected |-> FALSE]

\* dict([(c.name, c) for c in cluster_list])[name]: a later entry with the
\* same key replaces an earlier one
cluster_dict(cluster_list, name) ==
    LET idx == {i \in 1..Len(cluster_list) : cluster_list[i].name = name}
    IN cluster_list[CHOOSE i \in idx : \A j \in idx : j <= i]

(***************************************************************************)
(* Cluster._set_gcp_cluster. listing is what _get_gcp_clusters returns:    *)
(* ok = FALSE stands for None. Returns the handle, the boolean result and  *)
(* the remote calls issued.                                                *)
(***************************************************************************)
Unpicked == [ok |-> FALSE, cluster |-> NoneCluster]

\* variant: with no name given, the first listed cluster is taken
pick_cluster_first(name, cluster_list) ==
    IF name = None
    THEN [ok |-> TRUE, cluster |-> cluster_list[1]]
    ELSE IF name \notin {cluster_list[i].name : i \in 1..Len(cluster_list)}
    THEN Unpicked
    ELSE [ok |-> TRUE, cluster |-> cluster_dict(cluster_list, name)]

\* variant: a name that is not listed falls back to the first listed cluster
pick_cluster_fallback(name, cluster_list) ==
    IF name = None /\ Len(cluster_list) > 1
    THEN Unpicked
    ELSE IF name = None
    THEN [ok |-> TRUE, cluster |-> cluster_list[1]]
    ELSE IF name \notin {cluster_list[i].name : i \in 1..Len(cluster_list)}
    THEN [ok |-> TRUE, cluster |-> cluster_list[1]]
    ELSE [ok |-> TRUE, cluster |-> cluster_dict(cluster_list, name)]

\* the choice among the clusters of a non-empty listing
pick_cluster(name, cluster_list) ==
    IF name = None /\ Len(cluster_list) > 1
    THEN Unpicked
    ELSE IF name = None
    THEN [ok |-> TRUE, cluster |-> cluster_list[1]]
    ELSE IF name \notin {cluster_list[i].name : i \in 1..Len(cluster_list)}
    THEN Unpicked
    ELSE [ok |-> TRUE, cluster |-> cluster_dict(cluster_list, name)]

\* `self._gcp_cluster = ...; return True`, or `return False` with nothing cached
cache_picked(c, p) ==
    IF ~p.ok
    THEN [c |-> c, ret |-> FALSE, calls |-> <<"list_clusters">>]
    ELSE [c |-> [c EXCEPT !.gcp_cluster = p.cluster],
          ret |-> TRUE, calls |-> <<"list_clusters">>]

\* the listing and the choice, when no descriptor is cached
resolve_cluster(c, listing) ==
    IF ~listing.ok   \* cluster_list is None
    THEN [c |-> c, ret |-> FALSE, calls |-> <<"list_clusters">>]
    ELSE IF Len(listing.clusters) < 1
    THEN [c |-> c, ret |-> FALSE, calls |-> <<"list_clusters">>]
    ELSE cache_picked(c, pick_cluster(c.name, listing.clusters))

\* variant: the cached descriptor is not consulted
set_gcp_cluster_nocache(c, listing) == resolve_cluster(c, listing)

set_gcp_cluster(c, listing) ==
    IF c.gcp_cluster # NoneCluster
    THEN [c |-> c, ret |-> TRUE, calls |-> <<>>]
    ELSE resolve_cluster(c, listing)

(***************************************************************************)
(* Cluster.connect. pods_ok: whether the list_pod_for_all_namespaces call  *)
(* used as the connection test succeeds (behind _k(False)).                *)
(***************************************************************************)
\* variant: zone and name keep the values the handle was constructed with
use_cluster_keeps_zone(c) == [c EXCEPT !.api = c.gcp_cluster]

\* zone, name and the kubernetes api objects, from the resolved descriptor
use_cluster(c) ==
    [c EXCEPT !.zone = c.gcp_cluster.zone,
              !.name = c.gcp_cluster.name,
              !.api = c.gcp_cluster]

\* variant: a resolved cluster counts as connected, the test is not consulted
connection_test_untested(c, calls, pods_ok) ==
    [c |-> [c EXCEPT !.connected = TRUE], ret |-> TRUE,
     calls |-> Append(calls, "list_pod_for_all_namespaces")]

\* variant: the flag is raised before the test and stays raised when it fails
connection_test_flag_kept(c, calls, pods_ok) ==
    [c |-> [c EXCEPT !.connected = TRUE], ret |-> pods_ok,
     calls |-> Append(calls, "list_pod_for_all_namespaces")]

\* self.connected = _k(False)(list_pod_for_all_namespaces)(); return it
connection_test(c, calls, pods_ok) ==
    [c |-> [c EXCEPT !.connected = pods_ok], ret |-> pods_ok,
     calls |-> Append(calls, "list_pod_for_all_namespaces")]

\* connect() from the result r of _set_gcp_cluster on
connect_resolved(r, pods_ok) ==
    IF ~r.ret
    THEN [c |-> r.c, ret |-> FALSE, calls |-> r.calls]
    ELSE connection_test(use_cluster(r.c), r.calls, pods_ok)

connect(c, listing, pods_ok) ==
    connect_resolved(set_gcp_cluster([c EXCEPT !.connected = FALSE], listing), pods_ok)

(***************************************************************************)
(* _wait_for_operation. rsps is what the operations API answers, poll by   *)
(* poll: None (the fetch failed) or a status. The loop has no exit other   *)
(* than a failed fetch or a status in conditions: when the scripted        *)
(* answers run out the wait is still polling.                              *)
(***************************************************************************)
Statuses == {"PENDING", "RUNNING", "DONE", "ABORTING"}
DefaultConditions == {"DONE", "ABORTING"}
NoneRsp == [status |-> None, at |-> 0]
Scripts == SeqsUpTo(Statuses \cup {None}, MaxPolls)

\* the scripts that differ in what the wait does: some polls answered PENDING,
\* then a failed fetch, a terminal status, or nothing more
PendingThen ==
    {[i \in 1..k |-> "PENDING"] : k \in 0..MaxPolls} \cup
    {[i \in 1..k |-> IF i < k THEN "PENDING" ELSE final] :
        k \in 1..MaxPolls, final \in DefaultConditions \cup {None}}

\* variant: the first response that was fetched is returned, whatever its status
wait_loop_first_response(rsps, conditions, i) ==
    IF i > Len(rsps)
    THEN [returned |-> FALSE, rsp |-> NoneRsp, polls |-> i - 1, sleeps |-> i - 1]
    ELSE IF rsps[i] = None
    THEN [returned |-> TRUE, rsp |-> NoneRsp, polls |-> i, sleeps |-> i - 1]
    ELSE [returned |-> TRUE, rsp |-> [status |-> rsps[i], at |-> i],
          polls |-> i, sleeps |-> i - 1]

\* variant: a failed fetch is slept over and the operation is polled again
RECURSIVE wait_loop_skip_errors(_, _, _)
wait_loop_skip_errors(rsps, conditions, i) ==
    IF i > Len(rsps)
    THEN [returned |-> FALSE, rsp |-> NoneRsp, polls |-> i - 1, sleeps |-> i - 1]
    ELSE IF rsps[i] # None /\ rsps[i] \in conditions
    THEN [returned |-> TRUE, rsp |-> [status |-> rsps[i], at |-> i],
          polls |-> i, sleeps |-> i - 1]
    ELSE wait_loop_skip_errors(rsps, conditions, i + 1)

RECURSIVE wait_loop(_, _, _)
wait_loop(rsps, conditions, i) ==
    IF i > Len(rsps)
    THEN [returned |-> FALSE, rsp |-> NoneRsp, polls |-> i - 1, sleeps |-> i - 1]
    ELSE IF rsps[i] = None
    THEN [returned |-> TRUE, rsp |-> NoneRsp, polls |-> i, sleeps |-> i - 1]
    ELSE IF rsps[i] \in conditions
    THEN [returned |-> TRUE, rsp |-> [status |-> rsps[i], at |-> i],
          polls |-> i, sleeps |-> i - 1]
    ELSE wait_loop(rsps, conditions, i + 1)

wait_for_operation(rsps, conditions) == wait_loop(rsps, conditions, 1)

(***************************************************************************)
(* The bodies of the gated methods. Each returns its return value and the  *)
(* remote calls it issued; none of them assigns a field of the handle.     *)
(* inp.api_ok: the kubernetes call succeeds (an exception is trapped by _k *)
(* and turned into None).                                                  *)
(***************************************************************************)
pods(c, inp) ==
    [ret |-> IF inp.api_ok THEN "V1PodList" ELSE None,
     calls |-> <<"list_pod_for_all_namespaces">>]

jobs_list(c, inp) ==
    [ret |-> IF inp.api_ok THEN "V1JobList" ELSE None,
     calls |-> <<"list_job_for_all_namespaces">>]

submit_job(c, inp) ==
    [ret |-> IF inp.api_ok THEN "V1Job" ELSE None,
     calls |-> <<"create_namespaced_job">>]

apply_daemonset(c, inp) ==
    [ret |-> IF inp.api_ok THEN "V1DaemonSet" ELSE None,
     calls |-> <<"create_namespaced_daemon_set">>]

\* Cluster.apply_daemonset_from_url: inp.url_ok is whether requests.get
\* answers with status ok; the handle is connected when the body runs, so
\* the wrapper of the nested apply_daemonset call goes straight to its body
apply_daemonset_from_url(c, inp) ==
    IF ~inp.url_ok
    THEN [ret |-> None, calls |-> <<"requests.get">>]
    ELSE [ret |-> apply_daemonset(c, inp).ret,
          calls |-> <<"requests.get">> \o apply_daemonset(c, inp).calls]

\* Cluster.delete after the wait w: the read of rsp['status'], a name the
\* method never binds. report: what the method logged or printed about the
\* deletion, nothing at all when the read raises.
delete_waited(w) ==
    [ret |-> IF w.returned THEN "raise NameError" ELSE "polling",
     calls |-> <<"delete_cluster">> \o [i \in 1..w.polls |-> "operations.get"],
     report |-> "none"]

\* Cluster.delete: the delete request and the wait for its operation
delete(c, inp) ==
    IF ~inp.op_ok
    THEN [ret |-> None, calls |-> <<"delete_cluster">>,
          report |-> "error deleting cluster"]
    ELSE delete_waited(wait_for_operation(inp.rsps, DefaultConditions))

(***************************************************************************)
(* Accelerators. A GPUSpec is [gpu, count], a TPUSpec is [tpu, count]; an  *)
(* absent spec (None) is the spec of kind None. What a catalog query       *)
(* returns is [ok, specs]: ok = FALSE stands for None, specs is the list.  *)
(***************************************************************************)
GPU == {"K80", "P100"}
TPU == {"V2", "V3"}
TpuCounts == {8, 32}

GPUSpecs == [gpu : GPU, count : 1..MaxGpuCount]
TPUSpecs == [tpu : TPU, count : TpuCounts]
NoneGPUSpec == [gpu |-> None, count |-> 0]
NoneTPUSpec == [tpu |-> None, count |-> 0]
_DEFAULT_GPU_SPEC == [gpu |-> "P100", count |-> 1]

NoneList == [ok |-> FALSE, specs |-> <<>>]
\* the accelerator catalogs list every kind at most once
GpuLists ==
    {NoneList} \cup
    {[ok |-> TRUE, specs |-> l] :
        l \in {t \in SeqsUpTo(GPUSpecs, Cardinality(GPU)) :
                 \A i, j \in 1..Len(t) : i # j => t[i].gpu # t[j].gpu}}
TpuLists ==
    {NoneList} \cup
    {[ok |-> TRUE, specs |-> l] :
        l \in {t \in SeqsUpTo(TPUSpecs, MaxTpuTypes) : NoDuplicates(t)}}

\* dict([(x.gpu, x.count) for x in specs]): the keys in insertion order, and
\* for each key the count of its last entry
limits_keys(specs) ==
    LET firsts == {i \in 1..Len(specs) :
                     \A j \in 1..(i - 1) : specs[j].gpu # specs[i].gpu}
    IN [k \in 1..Cardinality(firsts) |->
          specs[CHOOSE i \in firsts : Cardinality({j \in firsts : j <= i}) = k].gpu]

limits_dict(specs) ==
    [g \in Range(limits_keys(specs)) |->
        LET idx == {i \in 1..Len(specs) : specs[i].gpu = g}
        IN specs[CHOOSE i \in idx : \A j \in idx : j <= i].count]

\* variant: the requested count is not compared with the limit
validate_against_any_count(spec, keys, gpu_limits, limit_type) ==
    IF spec.gpu \notin DOMAIN gpu_limits
    THEN IF Len(keys) > 0
         THEN [ret |-> "False", error |-> "unsupported", printed |-> <<keys[1]>>,
               limit_type |-> limit_type]
         ELSE [ret |-> "raise KeyError", error |-> "unsupported", printed |-> <<>>,
               limit_type |-> limit_type]
    ELSE [ret |-> "True", error |-> "none", printed |-> <<>>,
          limit_type |-> limit_type]

\* _validate_gpu_spec_against_limits(gpu_spec, gpu_limits, limit_type), with
\* the dictionary given as its keys in order and its mapping. printed: the
\* kinds the `for g in gpu_limits` loop prints before its return.
validate_against(spec, keys, gpu_limits, limit_type) ==
    IF spec.gpu \notin DOMAIN gpu_limits
    THEN IF Len(keys) > 0
         THEN [ret |-> "False", error |-> "unsupported", printed |-> <<keys[1]>>,
               limit_type |-> limit_type]
         \* the loop body never runs; the next statement reads gpu_limits[gpu]
         ELSE [ret |-> "raise KeyError", error |-> "unsupported", printed |-> <<>>,
               limit_type |-> limit_type]
    ELSE IF spec.count > gpu_limits[spec.gpu]
    THEN [ret |-> "False", error |-> "count", printed |-> <<>>,
          limit_type |-> limit_type]
    ELSE [ret |-> "True", error |-> "none", printed |-> <<>>,
          limit_type |-> limit_type]

\* the same, from the list the caller builds the dictionary from
validate_gpu_spec_against_limits(spec, specs, limit_type) ==
    validate_against(spec, limits_keys(specs), limits_dict(specs), limit_type)

\* Cluster.get_gpu_types (body): the autoprovisioning resource limits of the
\* cluster, None when the answer is None or carries none
get_gpu_types(c, inp) ==
    [ret |-> inp.cluster_gpus, calls |-> <<"clusters.get">>]

\* Cluster.get_tpu_types (body) with _get_zone_tpu_types
get_tpu_types(c, inp) ==
    [ret |-> inp.tpus, calls |-> <<"tpu.acceleratorTypes.list">>]

GatedOps == {"pods", "jobs", "submit_job", "apply_daemonset", "delete"}

fn_body(fn, c, inp) ==
    CASE fn = "pods" -> pods(c, inp)
      [] fn = "jobs" -> jobs_list(c, inp)
      [] fn = "submit_job" -> submit_job(c, inp)
      [] fn = "apply_daemonset" -> apply_daemonset(c, inp)
      [] fn = "delete" -> delete(c, inp)
      [] fn = "get_gpu_types" -> get_gpu_types(c, inp)
      [] fn = "get_tpu_types" -> get_tpu_types(c, inp)
      [] fn = "create_simple_experiment_jobs" -> [ret |-> "generator", calls |-> <<>>]
      [] fn = "apply_daemonset_from_url" -> apply_daemonset_from_url(c, inp)

\* the value each method hands to the decorator: @connected(None), and
\* @connected(False) for delete
error_value(fn) ==
    CASE fn = "delete" -> "False"
      [] fn \in {"get_gpu_types", "get_tpu_types"} -> NoneList
      [] OTHER -> None

(***************************************************************************)
(* The wrapper of the `connected` decorator around method fn.              *)
(* connects: how many times connect() was called and cret what it          *)
(* returned; body: whether fn ran; flag: self.connected as fn started.     *)
(***************************************************************************)
\* `return fn(self, *args, **kwargs)`: b is what the body did
ran(c, calls, connects, cret, b) ==
    [c |-> c, ret |-> b.ret, calls |-> calls \o b.calls,
     connects |-> connects, cret |-> cret, body |-> TRUE, flag |-> c.connected]

\* `return error_value`
not_ran(c, calls, connects, fn) ==
    [c |-> c, ret |-> error_value(fn), calls |-> calls,
     connects |-> connects, cret |-> "False", body |-> FALSE, flag |-> c.connected]

\* variant: fn runs whatever connect() returned
after_connect_unchecked(fn, inp, r) ==
    ran(r.c, r.calls, 1, IF r.ret THEN "True" ELSE "False", fn_body(fn, r.c, inp))

\* variant: a failed connect() is tried a second time
after_connect_retry(fn, inp, r) ==
    IF ~r.ret
    THEN not_ran(connect(r.c, inp.listing, inp.pods_ok).c,
                 r.calls \o connect(r.c, inp.listing, inp.pods_ok).calls, 2, fn)
    ELSE ran(r.c, r.calls, 1, "True", fn_body(fn, r.c, inp))

\* the wrapper from the result r of its connect() on
after_connect(fn, inp, r) ==
    IF ~r.ret
    THEN not_ran(r.c, r.calls, 1, fn)
    ELSE ran(r.c, r.calls, 1, "True", fn_body(fn, r.c, inp))

connected(fn, c, inp) ==
    IF ~c.connected
    THEN after_connect(fn, inp, connect(c, inp.listing, inp.pods_ok))
    ELSE ran(c, <<>>, 0, "n/a", fn_body(fn, c, inp))

(***************************************************************************)
(* Cluster.validate_gpu_spec. inp.zone_gpus is what _get_zone_gpu_types    *)
(* returns, inp.cluster_gpus what the cluster reports.                     *)
(***************************************************************************)
\* the check against the cluster limits; calls: the calls issued so far
cluster_limits_checked(c, calls, k) ==
    [c |-> c, ret |-> k.ret, calls |-> calls,
     failed |-> IF k.ret = "True" THEN "none" ELSE "cluster"]

\* from the result g of self.get_gpu_types() on
cluster_limits_fetched(spec, g) ==
    IF ~g.ret.ok
    THEN [c |-> g.c, ret |-> "False",
          calls |-> <<"compute.acceleratorTypes.list">> \o g.calls,
          failed |-> "cluster query"]
    ELSE cluster_limits_checked(
             g.c, <<"compute.acceleratorTypes.list">> \o g.calls,
             validate_gpu_spec_against_limits(spec, g.ret.specs, "cluster"))

\* variant: the cluster limits are fetched whatever the zone check returned
zone_limits_checked_late(c, spec, inp, z) ==
    IF z.ret # "True"
    THEN [c |-> connected("get_gpu_types", c, inp).c, ret |-> z.ret,
          calls |-> <<"compute.acceleratorTypes.list">>
                      \o connected("get_gpu_types", c, inp).calls,
          failed |-> "zone"]
    ELSE cluster_limits_fetched(spec, connected("get_gpu_types", c, inp))

\* from the result z of the check against the zone limits on
zone_limits_checked(c, spec, inp, z) ==
    IF z.ret # "True"
    THEN [c |-> c, ret |-> z.ret, calls |-> <<"compute.acceleratorTypes.list">>,
          failed |-> "zone"]
    ELSE cluster_limits_fetched(spec, connected("get_gpu_types", c, inp))

\* variant: an absent spec is validated like any other
validate_gpu_spec_always_queries(c, spec, inp) ==
    IF ~inp.zone_gpus.ok
    THEN [c |-> c, ret |-> "False", calls |-> <<"compute.acceleratorTypes.list">>,
          failed |-> "zone query"]
    ELSE zone_limits_checked(
             c, spec, inp,
             validate_gpu_spec_against_limits(spec, inp.zone_gpus.specs, "zone"))

validate_gpu_spec(c, spec, inp) ==
    IF spec = NoneGPUSpec
    THEN [c |-> c, ret |-> "True", calls |-> <<>>, failed |-> "none"]
    ELSE IF ~inp.zone_gpus.ok
    THEN [c |-> c, ret |-> "False", calls |-> <<"compute.acceleratorTypes.list">>,
          failed |-> "zone query"]
    ELSE zone_limits_checked(
             c, spec, inp,
             validate_gpu_spec_against_limits(spec, inp.zone_gpus.specs, "zone"))

(***************************************************************************)
(* Cluster.convert_accel_spec: [ok |-> FALSE] stands for None.             *)
(***************************************************************************)
\* variant: with both specs given the gpu spec wins
convert_accel_spec_gpu_first(gpu, tpu) ==
    IF gpu # NoneGPUSpec
    THEN [ok |-> TRUE, accel |-> gpu.gpu, count |-> gpu.count]
    ELSE IF tpu # NoneTPUSpec
    THEN [ok |-> TRUE, accel |-> tpu.tpu, count |-> tpu.count]
    ELSE [ok |-> TRUE, accel |-> None, count |-> 1]

\* variant: a tpu request is converted with the count of a cpu job
convert_accel_spec_tpu_count(gpu, tpu) ==
    IF gpu # NoneGPUSpec /\ tpu # NoneTPUSpec
    THEN [ok |-> FALSE, accel |-> None, count |-> 0]
    ELSE IF gpu # NoneGPUSpec
    THEN [ok |-> TRUE, accel |-> gpu.gpu, count |-> gpu.count]
    ELSE IF tpu # NoneTPUSpec
    THEN [ok |-> TRUE, accel |-> tpu.tpu, count |-> 1]
    ELSE [ok |-> TRUE, accel |-> None, count |-> 1]

convert_accel_spec(gpu, tpu) ==
    IF gpu # NoneGPUSpec /\ tpu # NoneTPUSpec
    THEN [ok |-> FALSE, accel |-> None, count |-> 0]
    ELSE IF gpu # NoneGPUSpec
    THEN [ok |-> TRUE, accel |-> gpu.gpu, count |-> gpu.count]
    ELSE IF tpu # NoneTPUSpec
    THEN [ok |-> TRUE, accel |-> tpu.tpu, count |-> tpu.count]
    ELSE [ok |-> TRUE, accel |-> None, count |-> 1]

(***************************************************************************)
(* The handle under arbitrary use: Init is a freshly constructed Cluster,  *)
(* every action is one method call.                                        *)
(***************************************************************************)
NoInput == [listing |-> NoListing, pods_ok |-> FALSE,
            api_ok |-> FALSE, url_ok |-> FALSE, op_ok |-> FALSE, rsps |-> <<>>,
            zone_gpus |-> NoneList, cluster_gpus |-> NoneList, tpus |-> NoneList]

NoCall == [op |-> "__init__", pre |-> NewCluster(None, _ZONE_DEFAULT),
           listing |-> NoInput.listing, pods_ok |-> FALSE,
           connects |-> 0, cret |-> "n/a", calls |-> <<>>, body |-> FALSE,
           flag |-> FALSE, ret |-> None]

NoChecks == [connect |-> "n/a", gpu |-> "n/a", gpu_failed |-> "n/a",
             tpu |-> "n/a", available_tpu |-> NoneList, accel |-> "n/a"]

NoArgs == [cluster_name |-> None, gpu_spec |-> NoneGPUSpec, tpu_spec |-> NoneTPUSpec,
           dry_run |-> FALSE, job_mode |-> "CPU", image_tag |-> FALSE,
           experiments |-> 1]

PipelineIdle ==
    /\ pc = "idle"
    /\ args = NoArgs
    /\ gpu_spec = NoneGPUSpec
    /\ jobs = <<>>
    /\ submitted = <<>>
    /\ events = <<>>
    /\ attempts = <<>>
    /\ checks = NoChecks
    /\ result = None

PipelineVars == <<pc, args, gpu_spec, jobs, submitted, events, attempts, checks, result>>

Init ==
    /\ \E name \in ClusterNames \cup {None}, zone \in Zones \cup {_ZONE_DEFAULT} :
          /\ cluster = NewCluster(name, zone)
          /\ last = [NoCall EXCEPT !.pre = NewCluster(name, zone)]
    /\ PipelineIdle

\* the answers a connect() on handle c consumes: a cluster listing unless the
\* descriptor is cached, and the outcome of the connection test
ConnectInputs(c) ==
    {[listing |-> l, pods_ok |-> p] :
        l \in IF c.gcp_cluster # NoneCluster THEN {NoListing} ELSE ListingsFor(c.zone),
        p \in BOOLEAN}

\* the handle and the record of the call after method op returned r
Called(op, listing, pods_ok, r) ==
    /\ cluster' = r.c
    /\ last' = [op |-> op, pre |-> cluster, listing |-> listing,
                pods_ok |-> pods_ok, connects |-> r.connects, cret |-> r.cret,
                calls |-> r.calls, body |-> r.body, flag |-> r.flag,
                ret |-> r.ret]
    /\ UNCHANGED PipelineVars

\* what a direct call of connect() reports, in the shape of a gated call
connect_called(r) ==
    [c |-> r.c, ret |-> IF r.ret THEN "True" ELSE "False", calls |-> r.calls,
     connects |-> 1, cret |-> IF r.ret THEN "True" ELSE "False",
     body |-> FALSE, flag |-> FALSE]

\* cluster.connect()
Connect ==
    \E ci \in ConnectInputs(cluster) :
        Called("connect", ci.listing, ci.pods_ok,
               connect_called(connect(cluster, ci.listing, ci.pods_ok)))

Gated(fn, inp) ==
    Called(fn, inp.listing, inp.pods_ok, connected(fn, cluster, inp))

\* the answers the wrapper of a gated call on handle c consumes: those of
\* connect() when the handle is not connected, none otherwise
WrapperInputs(c) ==
    IF c.connected THEN {NoInput}
    ELSE {[NoInput EXCEPT !.listing = ci.listing, !.pods_ok = ci.pods_ok] :
            ci \in ConnectInputs(c)}

\* the inputs of a gated kubernetes call
ApiInputs ==
    {[inp EXCEPT !.api_ok = a] : inp \in WrapperInputs(cluster), a \in BOOLEAN}

\* cluster.pods()
Pods == \E inp \in ApiInputs : Gated("pods", inp)

\* cluster.jobs()
Jobs == \E inp \in ApiInputs : Gated("jobs", inp)

\* cluster.submit_job(job)
SubmitJob == \E inp \in ApiInputs : Gated("submit_job", inp)

\* cluster.apply_daemonset(daemonset)
ApplyDaemonset == \E inp \in ApiInputs : Gated("apply_daemonset", inp)

\* cluster.delete()
Delete ==
    \E inp \in WrapperInputs(cluster), op_ok \in BOOLEAN,
       rsps \in PendingThen :
        Gated("delete", [inp EXCEPT !.op_ok = op_ok,
                                    !.rsps = IF op_ok THEN rsps ELSE <<>>])

Next ==
    \/ Connect
    \/ Pods
    \/ Jobs
    \/ SubmitJob
    \/ ApplyDaemonset
    \/ Delete

Spec == Init /\ [][Next]_vars

(***************************************************************************)
(* The job submission pipeline: _job_submit under @_with_cluster, one step *)
(* per statement group. The credentials decorator, the docker image build  *)
(* and the experiment expansion are external: the run starts with the      *)
(* argument dictionary and the number of experiments the expansion gives.  *)
(***************************************************************************)
JobModes == {"CPU", "GPU"}

ArgsSet ==
    [cluster_name : {None, "blueshift"},
     gpu_spec : GPUSpecs \cup {NoneGPUSpec},
     tpu_spec : TPUSpecs \cup {NoneTPUSpec},
     dry_run : BOOLEAN,
     job_mode : JobModes,
     image_tag : BOOLEAN,
     experiments : 1..MaxExperiments]

InitSubmit ==
    /\ args \in ArgsSet
    /\ cluster = NewCluster(args.cluster_name, _ZONE_DEFAULT)
    /\ last = [NoCall EXCEPT !.pre = cluster]
    /\ pc = "with_cluster"
    /\ gpu_spec = args.gpu_spec
    /\ jobs = <<>>
    /\ submitted = <<>>
    /\ events = <<>>
    /\ attempts = <<>>
    /\ checks = NoChecks
    /\ result = "running"

\* Cluster.get: construct and connect; a failed connect() gives None
Cluster_get(name, zone, listing, pods_ok) ==
    connect(NewCluster(name, zone), listing, pods_ok)

\* _with_cluster: `if cluster is None: return`, else fn(args, cluster)
after_with_cluster(ok) == IF ok THEN "validate_gpu" ELSE "return"

\* variant: the result of the gpu validation is not looked at
after_validate_gpu_ignored(ret) == "validate_tpu"

\* `if not cluster.validate_gpu_spec(gpu_spec): return`
after_validate_gpu(ret) ==
    CASE ret = "True" -> "validate_tpu"
      [] ret = "False" -> "return"
      [] OTHER -> "raise"

\* variant: a spec passes when the list holds its kind with at least its count
validate_tpu_spec_ceiling(tpu_spec, available_tpu) ==
    IF ~available_tpu.ok THEN "None"
    ELSE IF \A i \in 1..Len(available_tpu.specs) :
               \/ available_tpu.specs[i].tpu # tpu_spec.tpu
               \/ available_tpu.specs[i].count < tpu_spec.count
    THEN "False"
    ELSE "True"

\* the tpu block: None from get_tpu_types, or a spec that is not in the list
validate_tpu_spec(tpu_spec, available_tpu) ==
    IF ~available_tpu.ok THEN "None"
    ELSE IF tpu_spec \notin Range(available_tpu.specs) THEN "False"
    ELSE "True"

after_validate_tpu(ret) == IF ret = "True" THEN "image" ELSE "return"

\* `if accel_spec is None: return`
after_convert(accel_spec) == IF accel_spec.ok THEN "create_jobs" ELSE "return"

\* variant: the loop ends at the first job that fails to submit
after_submit_break(js, sj) == IF sj = None THEN <<>> ELSE Tail(js)

\* the submit loop goes on to the next job whatever submit_job returned
after_submit(js, sj) == Tail(js)

\* a return statement (result None) or an exception leaving _job_submit
Leave(how, value) ==
    /\ pc' = "done"
    /\ result' = value

Goto(next, raised) ==
    IF next = "return" THEN Leave("return", None)
    ELSE IF next = "raise" THEN Leave("raise", raised)
    ELSE /\ pc' = next
         /\ result' = result

\* _with_cluster from the result r of Cluster.get on
WithClusterGot(r) ==
    /\ cluster' = r.c
    /\ events' = events \o r.calls
    /\ checks' = [checks EXCEPT !.connect = IF r.ret THEN "True" ELSE "False"]
    /\ Goto(after_with_cluster(r.ret), None)

WithCluster ==
    /\ pc = "with_cluster"
    /\ \E ci \in ConnectInputs(cluster) :
         WithClusterGot(Cluster_get(args.cluster_name, _ZONE_DEFAULT,
                                    ci.listing, ci.pods_ok))
    /\ UNCHANGED <<last, args, gpu_spec, jobs, submitted, attempts>>

\* the answers validate_gpu_spec consumes for spec: none for a cpu job, the
\* zone catalog, and the cluster limits when the zone check passes
GpuInputs(spec) ==
    IF spec = NoneGPUSpec THEN {NoInput}
    ELSE {[NoInput EXCEPT !.zone_gpus = z, !.cluster_gpus = k] :
            z \in GpuLists,
            k \in GpuLists}

\* `if job_mode == conf.JobMode.GPU and gpu_spec is None`: the default spec
default_gpu_spec(job_mode, spec) ==
    IF job_mode = "GPU" /\ spec = NoneGPUSpec THEN _DEFAULT_GPU_SPEC ELSE spec

\* _job_submit from the result r of cluster.validate_gpu_spec on
GpuValidated(r) ==
    /\ cluster' = r.c
    /\ events' = events \o r.calls
    /\ checks' = [checks EXCEPT !.gpu = r.ret, !.gpu_failed = r.failed]
    /\ Goto(after_validate_gpu(r.ret), r.ret)

ValidateGpuSpec(spec) ==
    /\ gpu_spec' = spec
    /\ \E inp \in GpuInputs(spec) : GpuValidated(validate_gpu_spec(cluster, spec, inp))

ValidateGpu ==
    /\ pc = "validate_gpu"
    /\ ValidateGpuSpec(default_gpu_spec(args.job_mode, gpu_spec))
    /\ UNCHANGED <<last, args, jobs, submitted, attempts>>

\* _job_submit from the result g of cluster.get_tpu_types on; ret is what
\* the comparison with the requested spec gives
TpuValidated(g, ret) ==
    /\ cluster' = g.c
    /\ events' = events \o g.calls
    /\ checks' = [checks EXCEPT !.tpu = ret, !.available_tpu = g.ret]
    /\ Goto(after_validate_tpu(ret), None)

TpuFetched(g) == TpuValidated(g, validate_tpu_spec(args.tpu_spec, g.ret))

ValidateTpu ==
    /\ pc = "validate_tpu"
    /\ IF args.tpu_spec = NoneTPUSpec
       THEN /\ pc' = "image"
            /\ UNCHANGED <<cluster, events, checks, result>>
       ELSE \E tpus \in TpuLists :
              TpuFetched(connected("get_tpu_types", cluster,
                                   [NoInput EXCEPT !.tpus = tpus]))
    /\ UNCHANGED <<last, args, gpu_spec, jobs, submitted, attempts>>

\* image_tag = args.get('image_tag') or generate_image_tag(...)
GenerateImage ==
    /\ pc = "image"
    /\ events' = IF args.image_tag THEN events ELSE Append(events, "generate_image_tag")
    /\ pc' = "convert"
    /\ UNCHANGED <<cluster, last, args, gpu_spec, jobs, submitted, attempts, checks, result>>

\* _job_submit from the accel_spec that convert_accel_spec returned on
Converted(accel_spec) ==
    /\ checks' = [checks EXCEPT !.accel = IF accel_spec.ok THEN "True" ELSE "None"]
    /\ Goto(after_convert(accel_spec), None)

ConvertAccel ==
    /\ pc = "convert"
    /\ Converted(convert_accel_spec(gpu_spec, args.tpu_spec))
    /\ UNCHANGED <<cluster, last, args, gpu_spec, jobs, submitted, events, attempts>>

\* the experiments of a run, named by their position in the expansion
expand_experiment_config(n) == [i \in 1..n |-> i]

\* create_simple_job(args=experiment_to_args(exp, args)): the job of exp
create_simple_job(exp) == [args |-> exp]

\* variant: the jobs come in the reverse order of the experiments
create_simple_experiment_jobs_reversed(experiments) ==
    [i \in 1..Len(experiments) |->
        create_simple_job(experiments[Len(experiments) + 1 - i])]

\* cluster.create_simple_experiment_jobs(...): a generator over the
\* experiments; job i is built from experiment i when the loop asks for it,
\* which gives the same job as building it at once
create_simple_experiment_jobs(experiments) ==
    [i \in 1..Len(experiments) |-> create_simple_job(experiments[i])]

\* variant: the dry_run flag is not looked at
after_create_jobs_submit(dry_run) == "submit"

\* `if dry_run:` print the jobs and return, else the submit loop
after_create_jobs(dry_run) == IF dry_run THEN "dry_run" ELSE "submit"

CreateJobs ==
    /\ pc = "create_jobs"
    /\ jobs' = create_simple_experiment_jobs(expand_experiment_config(args.experiments))
    /\ pc' = after_create_jobs(args.dry_run)
    /\ UNCHANGED <<cluster, last, args, gpu_spec, submitted, events, attempts, checks, result>>

DryRunPrint ==
    /\ pc = "dry_run"
    /\ jobs # <<>>
    /\ events' = Append(events, "print job")
    /\ jobs' = Tail(jobs)
    /\ UNCHANGED <<cluster, last, pc, args, gpu_spec, submitted, attempts, checks, result>>

DryRunReturn ==
    /\ pc = "dry_run"
    /\ jobs = <<>>
    /\ Leave("return", None)
    /\ UNCHANGED <<cluster, last, args, gpu_spec, jobs, submitted, events, attempts, checks>>

\* the loop body from the result r of cluster.submit_job(job=j) on
Submitted(j, r) ==
    /\ cluster' = r.c
    /\ events' = events \o r.calls
    /\ attempts' = Append(attempts, [job |-> j, sj |-> r.ret])
    /\ submitted' = IF r.ret = None THEN submitted ELSE Append(submitted, j)
    /\ jobs' = after_submit(jobs, r.ret)

SubmitNext ==
    /\ pc = "submit"
    /\ jobs # <<>>
    /\ \E inp \in ApiInputs : Submitted(Head(jobs), connected("submit_job", cluster, inp))
    /\ UNCHANGED <<last, pc, args, gpu_spec, checks, result>>

SubmitReturn ==
    /\ pc = "submit"
    /\ jobs = <<>>
    /\ Leave("return", "submitted")
    /\ UNCHANGED <<cluster, last, args, gpu_spec, jobs, submitted, events, attempts, checks>>

NextSubmit ==
    \/ WithCluster
    \/ ValidateGpu
    \/ ValidateTpu
    \/ GenerateImage
    \/ ConvertAccel
    \/ CreateJobs
    \/ DryRunPrint
    \/ DryRunReturn
    \/ SubmitNext
    \/ SubmitReturn

SpecSubmit == InitSubmit /\ [][NextSubmit]_vars

(***************************************************************************)
(* Cluster creation: _cluster_create, one step per remote request. The     *)
(* credentials decorator is external: the run starts with the argument     *)
(* dictionary. cluster is the handle Cluster.get constructs once the       *)
(* create operation is done. checks records what the run saw and the       *)
(* error it reported.                                                      *)
(***************************************************************************)
_DEFAULT_CLUSTER_NAME == "blueshift"

CreateArgs ==
    [cluster_name : ClusterNames \cup {None},
     dry_run : BOOLEAN,
     zone : Zones \cup {"nowhere"}]

\* cluster_name = args['cluster_name'] or _DEFAULT_CLUSTER_NAME
create_name(a) == IF a.cluster_name = None THEN _DEFAULT_CLUSTER_NAME ELSE a.cluster_name

\* _parse_zone(zone) is not None: the zone has the form region-zone
_parse_zone(zone) == zone \in Zones

NoCreateChecks == [wait |-> "n/a", connect |-> "n/a", error |-> "none"]

InitCreate ==
    /\ args \in CreateArgs
    /\ cluster = NewCluster(create_name(args), args.zone)
    /\ last = [NoCall EXCEPT !.pre = cluster]
    /\ pc = "list"
    /\ gpu_spec = NoneGPUSpec
    /\ jobs = <<>>
    /\ submitted = <<>>
    /\ events = <<>>
    /\ attempts = <<>>
    /\ checks = NoCreateChecks
    /\ result = "running"

\* Cluster.list: the names of the listed clusters, None when the listing is
Cluster_list(listing) ==
    [ok |-> listing.ok,
     names |-> [i \in 1..Len(listing.clusters) |-> listing.clusters[i].name]]

Continue(next) == [next |-> next, error |-> "none"]
Return(error) == [next |-> "return", error |-> error]
Raise(exception) == [next |-> "raise", error |-> exception]

\* the existing clusters: len(clusters), the name test and _user_verify
after_list(clusters, cluster_name, verify) ==
    IF ~clusters.ok THEN Raise("raise TypeError")
    ELSE IF Len(clusters.names) = 0 THEN Continue("zone")
    ELSE IF cluster_name \in Range(clusters.names) THEN Return("already exists")
    ELSE IF ~verify THEN Return("declined")
    ELSE Continue("zone")

\* `if rz is None`
after_parse_zone(ok) == IF ok THEN Continue("create") ELSE Return("invalid zone")

\* `if rsp is None` after the create request
after_create(ok) == IF ok THEN Continue("wait") ELSE Return("could not create cluster")

\* `if rsp['status'] != 'DONE'` on what _wait_for_operation returned: None
\* has no item 'status'
after_wait(rsp) ==
    IF rsp = NoneRsp THEN Raise("raise TypeError")
    ELSE IF rsp.status # "DONE" THEN Return("error creating cluster")
    ELSE Continue("get")

\* `if cluster is None`
after_get(ok) == IF ok THEN Continue("daemonset") ELSE Return("unable to connect")

\* the run goes on, returns after reporting an error, or raises; ch is what
\* it has seen so far
CreateDecide(d, ch) ==
    IF d.next = "return"
    THEN /\ pc' = "done"
         /\ result' = None
         /\ checks' = [ch EXCEPT !.error = d.error]
    ELSE IF d.next = "raise"
    THEN /\ pc' = "done"
         /\ result' = d.error
         /\ checks' = ch
    ELSE /\ pc' = d.next
         /\ result' = result
         /\ checks' = ch

CreateList ==
    /\ pc = "list"
    /\ events' = Append(events, "list_clusters")
    /\ \E listing \in ListingsFor(_ZONE_DEFAULT), verify \in BOOLEAN :
         CreateDecide(after_list(Cluster_list(listing), create_name(args), verify),
                      checks)
    /\ UNCHANGED <<cluster, last, args, gpu_spec, jobs, submitted, attempts>>

\* the zone, and the resource limits from the quotas of its region
CreateZone ==
    /\ pc = "zone"
    /\ events' = IF _parse_zone(args.zone)
                 THEN Append(events, "regions.get") ELSE events
    /\ CreateDecide(after_parse_zone(_parse_zone(args.zone)), checks)
    /\ UNCHANGED <<cluster, last, args, gpu_spec, jobs, submitted, attempts>>

\* the create request, printed under dry_run and sent otherwise
CreateRequest ==
    /\ pc = "create"
    /\ IF args.dry_run
       THEN /\ events' = Append(events, "print request")
            /\ CreateDecide(Return("none"), checks)
       ELSE /\ events' = Append(events, "clusters.create")
            /\ \E ok \in BOOLEAN : CreateDecide(after_create(ok), checks)
    /\ UNCHANGED <<cluster, last, args, gpu_spec, jobs, submitted, attempts>>

wait_status(w) == IF w.rsp = NoneRsp THEN "fetch error" ELSE w.rsp.status

\* the run from the result w of _wait_for_operation on; a wait that has not
\* returned is still polling
CreateWaited(w) ==
    /\ events' = events \o [i \in 1..w.polls |-> "operations.get"]
    /\ IF ~w.returned
       THEN /\ pc' = "polling"
            /\ UNCHANGED <<checks, result>>
       ELSE CreateDecide(after_wait(w.rsp), [checks EXCEPT !.wait = wait_status(w)])

CreateWait ==
    /\ pc = "wait"
    /\ \E rsps \in PendingThen :
         CreateWaited(wait_for_operation(rsps, DefaultConditions))
    /\ UNCHANGED <<cluster, last, args, gpu_spec, jobs, submitted, attempts>>

CreateGot(r) ==
    /\ cluster' = r.c
    /\ events' = events \o r.calls
    /\ CreateDecide(after_get(r.ret),
                    [checks EXCEPT !.connect = IF r.ret THEN "True" ELSE "False"])

CreateGet ==
    /\ pc = "get"
    /\ \E ci \in ConnectInputs(cluster) :
         CreateGot(Cluster_get(create_name(args), args.zone, ci.listing, ci.pods_ok))
    /\ UNCHANGED <<last, args, gpu_spec, jobs, submitted, attempts>>

CreateApplied(r) ==
    /\ cluster' = r.c
    /\ events' = events \o r.calls
    /\ CreateDecide(Return("none"), checks)

\* cluster.apply_daemonset_from_url(_NVIDIA_DRIVER_COS_DAEMONSET_URL, ...)
CreateDaemonset ==
    /\ pc = "daemonset"
    /\ \E w \in WrapperInputs(cluster), u \in BOOLEAN, a \in BOOLEAN :
         CreateApplied(connected("apply_daemonset_from_url", cluster,
                                 [w EXCEPT !.url_ok = u, !.api_ok = a]))
    /\ UNCHANGED <<last, args, gpu_spec, jobs, submitted, attempts>>

NextCreate ==
    \/ CreateList
    \/ CreateZone
    \/ CreateRequest
    \/ CreateWait
    \/ CreateGet
    \/ CreateDaemonset

SpecCreate == InitCreate /\ [][NextCreate]_vars

(***************************************************************************)
(* _sanitize_job_name. A string is the sequence of its characters; the     *)
(* alphabet holds lower-case and upper-case letters, a digit, the two      *)
(* punctuation marks a DNS-1123 name allows and two characters it does not.*)
(***************************************************************************)
Lowercase == {"b", "j", "m", "o", "y"}
Uppercase == {"J", "M"}
Digits == {"0"}

\* str.lower() and str.isalnum() on one character
lower(x) == CASE x = "J" -> "j" [] x = "M" -> "m" [] OTHER -> x
isalnum(x) == x \in Lowercase \cup Uppercase \cup Digits

lower_name(name) == [i \in 1..Len(name) |-> lower(name[i])]

\* variant: the prefix is put in front of every name
with_prefix_always(name) == <<"j", "o", "b", "-">> \o name

\* `if not name[0].isalnum(): name = 'job-' + name`
with_prefix(name) ==
    IF ~isalnum(name[1]) THEN <<"j", "o", "b", "-">> \o name ELSE name

\* `if not name[-1].isalnum(): name = name + '-0'`
with_suffix(name) ==
    IF ~isalnum(name[Len(name)]) THEN name \o <<"-", "0">> ELSE name

valid(x) == isalnum(x) \/ x \in {"-", "."}

\* ''.join([x if valid(x) else '-' for x in name])
replace_invalid(name) ==
    [i \in 1..Len(name) |-> IF valid(name[i]) THEN name[i] ELSE "-"]

\* name[0] of the empty string raises IndexError
_sanitize_job_name(name) ==
    IF Len(name) = 0
    THEN [ret |-> "raise IndexError", name |-> <<>>]
    ELSE [ret |-> "str",
          name |-> replace_invalid(with_suffix(with_prefix(lower_name(name))))]

NameChars == {"y", "M", "0", "-", ".", " ", "!"}
MyJob == <<"M", "y", " ", "J", "o", "b", "!">>
JobNames == SeqsUpTo(NameChars, MaxNameLen) \cup {MyJob}

(***************************************************************************)
(* _generate_resource_limits. quotas is what _get_region_quotas returns:   *)
(* ok = FALSE stands for None. A limit and a maximum are numbers: the      *)
(* decimal string str() makes of the number is not modelled.               *)
(***************************************************************************)
_MAX_GB_PER_CPU == 64

Metrics == {"CPUS", "NVIDIA_V100_GPUS", "NVIDIA_K80_GPUS",
            "NVIDIA_P100_VWS_GPUS", "DISKS_TOTAL_GB"}
QuotaLimits == {4, 10}
NoQuotas == [ok |-> FALSE, quotas |-> <<>>]
QuotaLists ==
    {NoQuotas} \cup
    {[ok |-> TRUE, quotas |-> q] :
        q \in SeqsUpTo([metric : Metrics, limit : QuotaLimits], MaxQuotas)}

\* gpu_re.match(metric): '^NVIDIA_(?P<gpu>[A-Z0-9]+)_GPUS$', and the
\* resource type 'nvidia-tesla-' + gpu.lower() of a match
gpu_re(metric) ==
    CASE metric = "NVIDIA_V100_GPUS" -> [ok |-> TRUE, resourceType |-> "nvidia-tesla-v100"]
      [] metric = "NVIDIA_K80_GPUS" -> [ok |-> TRUE, resourceType |-> "nvidia-tesla-k80"]
      [] OTHER -> [ok |-> FALSE, resourceType |-> None]

\* variant: the memory limit comes before the cpu limit
quota_limits_memory_first(q) ==
    IF q.metric = "CPUS"
    THEN <<[resourceType |-> "memory", maximum |-> q.limit * _MAX_GB_PER_CPU],
           [resourceType |-> "cpu", maximum |-> q.limit]>>
    ELSE IF gpu_re(q.metric).ok
    THEN <<[resourceType |-> gpu_re(q.metric).resourceType, maximum |-> q.limit]>>
    ELSE <<>>

\* the body of `for q in quotas`: what one quota appends to limits
quota_limits(q) ==
    IF q.metric = "CPUS"
    THEN <<[resourceType |-> "cpu", maximum |-> q.limit],
           [resourceType |-> "memory", maximum |-> q.limit * _MAX_GB_PER_CPU]>>
    ELSE IF gpu_re(q.metric).ok
    THEN <<[resourceType |-> gpu_re(q.metric).resourceType, maximum |-> q.limit]>>
    ELSE <<>>

RECURSIVE limits_from(_, _)
limits_from(quotas, i) ==
    IF i > Len(quotas) THEN <<>>
    ELSE quota_limits(quotas[i]) \o limits_from(quotas, i + 1)

_generate_resource_limits(quotas) ==
    IF ~quotas.ok
    THEN [ok |-> FALSE, limits |-> <<>>]
    ELSE [ok |-> TRUE, limits |-> limits_from(quotas.quotas, 1)]

(***************************************************************************)
(* Cluster.container_limits. The dictionary is the set of its entries; a   *)
(* key is its resource name and, for a tpu, the prefix and the kind that   *)
(* follow the '/'. ok = FALSE stands for None.                             *)
(***************************************************************************)
_CONTAINER_RESOURCE_LIMIT_TPU == "cloud-tpus.google.com"
_CONTAINER_RESOURCE_LIMIT_GPU == "nvidia.com/gpu"

AcceleratorCounts == TpuCounts \cup (1..MaxGpuCount)

\* accelerator.name.lower()
tpu_name_lower(tpu) == CASE tpu = "V2" -> "v2" [] tpu = "V3" -> "v3"

\* variant: the prefix is used whenever preemptible tpus are asked for
tpu_limit_key_any_count(accelerator, count, preemptible_tpu) ==
    [resource |-> _CONTAINER_RESOURCE_LIMIT_TPU,
     prefix |-> IF preemptible_tpu THEN "preemptible-" ELSE "",
     kind |-> tpu_name_lower(accelerator)]

\* '/'.join([_CONTAINER_RESOURCE_LIMIT_TPU, prefix + accelerator.name.lower()])
tpu_limit_key(accelerator, count, preemptible_tpu) ==
    [resource |-> _CONTAINER_RESOURCE_LIMIT_TPU,
     prefix |-> IF preemptible_tpu /\ count = 8 THEN "preemptible-" ELSE "",
     kind |-> tpu_name_lower(accelerator)]

container_limits(accelerator, count, preemptible_tpu) ==
    IF accelerator = None
    THEN [ok |-> FALSE, limits |-> {}]
    ELSE IF accelerator \in GPU
    THEN [ok |-> TRUE,
          limits |-> {[key |-> [resource |-> _CONTAINER_RESOURCE_LIMIT_GPU,
                                prefix |-> "", kind |-> ""],
                       value |-> count]}]
    ELSE IF accelerator \in TPU
    THEN [ok |-> TRUE,
          limits |-> {[key |-> tpu_limit_key(accelerator, count, preemptible_tpu),
                       value |-> count]}]
    ELSE [ok |-> FALSE, limits |-> {}]

(***************************************************************************)
(* The functions and methods under direct calls: a freshly constructed     *)
(* handle that may be connected, and one action per function, which draws  *)
(* the arguments and the answers of the remote services, and records the   *)
(* arguments in args and what the call did in result. The functions keep   *)
(* no state between calls other than the handle, whose states connect()    *)
(* reaches, so a run is some connect() calls followed by one call.         *)
(***************************************************************************)
NoCallYet == [fn |-> "none"]

InitCalls ==
    /\ \E name \in ClusterNames \cup {None}, zone \in Zones \cup {_ZONE_DEFAULT} :
          /\ cluster = NewCluster(name, zone)
          /\ last = [NoCall EXCEPT !.pre = NewCluster(name, zone)]
    /\ pc = "idle"
    /\ args = NoCallYet
    /\ gpu_spec = NoneGPUSpec
    /\ jobs = <<>>
    /\ submitted = <<>>
    /\ events = <<>>
    /\ attempts = <<>>
    /\ checks = NoChecks
    /\ result = NoCallYet

\* the call fn(a) returned: the handle is c, r is what the call did
Returned(c, a, r) ==
    /\ cluster' = c
    /\ args' = a
    /\ result' = r
    /\ UNCHANGED <<last, pc, gpu_spec, jobs, submitted, events, attempts, checks>>

\* the answers validate_gpu_spec consumes beyond the zone catalog z: the
\* cluster limits and, on a handle that is not connected, those of connect()
ClusterInputs(c, spec, z) ==
    IF validate_gpu_spec(c, spec, [NoInput EXCEPT !.zone_gpus = z]).failed
          \in {"zone query", "zone"}
    THEN {[NoInput EXCEPT !.zone_gpus = z, !.cluster_gpus = k] : k \in GpuLists}
    ELSE {[w EXCEPT !.zone_gpus = z, !.cluster_gpus = k] :
            w \in WrapperInputs(c), k \in GpuLists}

\* cluster.validate_gpu_spec(spec)
ValidateGpuReturned(spec, inp, r) ==
    Returned(r.c,
             [fn |-> "validate_gpu_spec", gpu_spec |-> spec,
              zone_gpus |-> inp.zone_gpus, cluster_gpus |-> inp.cluster_gpus,
              connected |-> cluster.connected],
             [ret |-> r.ret, calls |-> r.calls, failed |-> r.failed])

ValidateGpuCall ==
    /\ args = NoCallYet
    /\ \E spec \in GPUSpecs \cup {NoneGPUSpec} :
         \E z \in IF spec = NoneGPUSpec THEN {NoneList} ELSE GpuLists :
            \E inp \in IF spec = NoneGPUSpec THEN {NoInput}
                       ELSE ClusterInputs(cluster, spec, z) :
                ValidateGpuReturned(spec, inp, validate_gpu_spec(cluster, spec, inp))

\* Cluster.convert_accel_spec(gpu, tpu)
ConvertCall ==
    /\ args = NoCallYet
    /\ \E gpu \in GPUSpecs \cup {NoneGPUSpec}, tpu \in TPUSpecs \cup {NoneTPUSpec} :
        Returned(cluster,
                 [fn |-> "convert_accel_spec", gpu_spec |-> gpu, tpu_spec |-> tpu],
                 convert_accel_spec(gpu, tpu))

\* _wait_for_operation(client, name, conditions) against a scripted
\* operations API
WaitCall ==
    /\ args = NoCallYet
    /\ \E rsps \in Scripts, conditions \in {DefaultConditions, {"DONE"}} :
        Returned(cluster,
                 [fn |-> "_wait_for_operation", rsps |-> rsps,
                  conditions |-> conditions],
                 wait_for_operation(rsps, conditions))

\* cluster.connect(), before the call
ConnectFirst ==
    /\ args = NoCallYet
    /\ \E ci \in ConnectInputs(cluster) :
         cluster' = connect(cluster, ci.listing, ci.pods_ok).c
    /\ UNCHANGED <<last, pc, args, gpu_spec, jobs, submitted, events, attempts,
                   checks, result>>

\* the experiments handed to a direct call of create_simple_experiment_jobs
ExperimentNames == {"a", "b"}
ExperimentLists == SeqsUpTo(ExperimentNames, MaxExperiments)

\* cluster.create_simple_experiment_jobs(experiments=exps) returned r: a
\* generator, or None from the connected wrapper
GeneratorReturned(exps, r) ==
    /\ cluster' = r.c
    /\ args' = [fn |-> "create_simple_experiment_jobs", experiments |-> exps]
    /\ result' = [ret |-> r.ret]
    /\ jobs' = IF r.ret = "generator"
               THEN create_simple_experiment_jobs(exps) ELSE <<>>
    /\ UNCHANGED <<last, pc, gpu_spec, submitted, events, attempts, checks>>

CreateJobsCall ==
    /\ args = NoCallYet
    /\ \E exps \in ExperimentLists, w \in WrapperInputs(cluster) :
         GeneratorReturned(
             exps, connected("create_simple_experiment_jobs", cluster, w))

IsGenerator ==
    /\ args # NoCallYet
    /\ args.fn = "create_simple_experiment_jobs"
    /\ result.ret = "generator"

\* a `for j in jobs` loop asks the generator for its next job and gets one
NextJob ==
    /\ IsGenerator
    /\ Len(attempts) < MaxPasses
    /\ jobs # <<>>
    /\ submitted' = Append(submitted, Head(jobs))
    /\ jobs' = Tail(jobs)
    /\ UNCHANGED <<cluster, last, pc, args, gpu_spec, events, attempts, checks, result>>

\* the generator function has returned: the loop ends, and the generator
\* stays exhausted for any later loop
StopIteration ==
    /\ IsGenerator
    /\ Len(attempts) < MaxPasses
    /\ jobs = <<>>
    /\ attempts' = Append(attempts, submitted)
    /\ submitted' = <<>>
    /\ UNCHANGED <<cluster, last, pc, args, gpu_spec, jobs, events, checks, result>>

\* a later call of create_simple_experiment_jobs with the same arguments:
\* the method reads no field of the handle and keeps nothing between calls
create_simple_experiment_jobs_again(experiments) ==
    create_simple_experiment_jobs(experiments)

\* list(jobs) for what the first and the second call returned
ExpandedTwice(exps, r1, r2) ==
    Returned(r2.c,
             [fn |-> "expand twice", experiments |-> exps],
             [first_ret |-> r1.ret,
              first |-> IF r1.ret = "generator"
                        THEN create_simple_experiment_jobs(exps) ELSE <<>>,
              second_ret |-> r2.ret,
              second |-> IF r2.ret = "generator"
                         THEN create_simple_experiment_jobs_again(exps) ELSE <<>>])

ExpandAgain(exps, r1) ==
    \E w \in WrapperInputs(r1.c) :
        ExpandedTwice(exps, r1,
                      connected("create_simple_experiment_jobs", r1.c, w))

\* two calls of cluster.create_simple_experiment_jobs with the same arguments
ExpandTwiceCall ==
    /\ args = NoCallYet
    /\ \E exps \in ExperimentLists, w \in WrapperInputs(cluster) :
         ExpandAgain(exps, connected("create_simple_experiment_jobs", cluster, w))

\* _sanitize_job_name(name)
SanitizeCall ==
    /\ args = NoCallYet
    /\ \E name \in JobNames :
         Returned(cluster, [fn |-> "_sanitize_job_name", name |-> name],
                  _sanitize_job_name(name))

\* _generate_resource_limits(project_id, region, compute_api)
ResourceLimitsCall ==
    /\ args = NoCallYet
    /\ \E quotas \in QuotaLists :
         Returned(cluster, [fn |-> "_generate_resource_limits", quotas |-> quotas],
                  _generate_resource_limits(quotas))

\* Cluster.container_limits(accelerator, count, preemptible_tpu)
ContainerLimitsCall ==
    /\ args = NoCallYet
    /\ \E accelerator \in GPU \cup TPU \cup {None}, count \in AcceleratorCounts,
          preemptible_tpu \in BOOLEAN :
         Returned(cluster,
                  [fn |-> "container_limits", accelerator |-> accelerator,
                   count |-> count, preemptible_tpu |-> preemptible_tpu],
                  container_limits(accelerator, count, preemptible_tpu))

\* the kinds a spec handed to _validate_gpu_spec_against_limits may ask
\* for: those of the catalogs and one no catalog of the model lists
RequestedKinds == GPU \cup {"V100"}

\* _validate_gpu_spec_against_limits(gpu_spec, gpu_limits, limit_type) with
\* gpu_limits = dict([(x.gpu, x.count) for x in specs])
ValidateAgainstCall ==
    /\ args = NoCallYet
    /\ \E spec \in [gpu : RequestedKinds, count : 1..MaxGpuCount],
          l \in GpuLists \ {NoneList}, limit_type \in {"zone", "cluster"} :
         Returned(cluster,
                  [fn |-> "_validate_gpu_spec_against_limits", gpu_spec |-> spec,
                   keys |-> limits_keys(l.specs), limit_type |-> limit_type],
                  validate_gpu_spec_against_limits(spec, l.specs, limit_type))

\* cluster.delete() returned r
DeleteReturned(inp, r) ==
    Returned(r.c,
             [fn |-> "delete", connected |-> cluster.connected,
              op_ok |-> inp.op_ok, rsps |-> inp.rsps],
             [ret |-> r.ret, calls |-> r.calls, body |-> r.body,
              report |-> IF r.body THEN delete(r.c, inp).report ELSE "none"])

DeleteCall ==
    /\ args = NoCallYet
    /\ \E w \in WrapperInputs(cluster), op_ok \in BOOLEAN, rsps \in PendingThen :
         DeleteReturned([w EXCEPT !.op_ok = op_ok,
                                  !.rsps = IF op_ok THEN rsps ELSE <<>>],
                        connected("delete", cluster,
                                  [w EXCEPT !.op_ok = op_ok,
                                            !.rsps = IF op_ok THEN rsps ELSE <<>>]))

NextCalls ==
    \/ ConnectFirst
    \/ ValidateGpuCall
    \/ ConvertCall
    \/ WaitCall
    \/ CreateJobsCall
    \/ NextJob
    \/ StopIteration
    \/ ExpandTwiceCall
    \/ SanitizeCall
    \/ ResourceLimitsCall
    \/ ContainerLimitsCall
    \/ ValidateAgainstCall
    \/ DeleteCall

SpecCalls == InitCalls /\ [][NextCalls]_vars

(***************************************************************************)
(* _wait_for_operation poll by poll, against an operation that makes       *)
(* progress on its own. events: the statuses the operation has had, the    *)
(* last one is what a fetch that succeeds answers. result: what wait_loop  *)
(* returns, kept as the loop runs. The loop counts nothing; polls and      *)
(* sleeps are the observer's counts and stop counting at MaxPolls.         *)
(***************************************************************************)
Waiting == [returned |-> FALSE, rsp |-> NoneRsp, polls |-> 0, sleeps |-> 0]

counted(n) == IF n < MaxPolls THEN n + 1 ELSE n

OperationStatus == events[Len(events)]

\* the statuses an operation of the container API moves to
NextStatus(status) ==
    CASE status = "PENDING" -> {"RUNNING"}
      [] status = "RUNNING" -> {"DONE", "ABORTING"}
      [] status = "ABORTING" -> {"DONE"}
      [] OTHER -> {}

InitWait ==
    /\ cluster = NewCluster(None, _ZONE_DEFAULT)
    /\ last = [NoCall EXCEPT !.pre = NewCluster(None, _ZONE_DEFAULT)]
    /\ pc = "get"
    /\ \E conditions \in {DefaultConditions, {"DONE"}} :
          args = [fn |-> "_wait_for_operation", conditions |-> conditions]
    /\ gpu_spec = NoneGPUSpec
    /\ jobs = <<>>
    /\ submitted = <<>>
    /\ \E status \in {"PENDING", "RUNNING", "DONE"} : events = <<status>>
    /\ attempts = <<>>
    /\ checks = NoChecks
    /\ result = Waiting

\* variant: only DONE ends the wait, whatever the conditions
wait_step_done_only(rsp, conditions) ==
    IF rsp = None THEN "return None"
    ELSE IF rsp = "DONE" THEN "return rsp"
    ELSE "sleep"

\* one pass of `while True` from the fetched rsp on
wait_step(rsp, conditions) ==
    IF rsp = None THEN "return None"
    ELSE IF rsp \in conditions THEN "return rsp"
    ELSE "sleep"

Fetched(rsp, step) ==
    /\ pc' = IF step = "sleep" THEN "sleep" ELSE "returned"
    /\ result' = [returned |-> step # "sleep",
                  rsp |-> IF rsp = None THEN NoneRsp
                          ELSE [status |-> rsp, at |-> counted(result.polls)],
                  polls |-> counted(result.polls),
                  sleeps |-> result.sleeps]
    /\ UNCHANGED <<cluster, last, args, gpu_spec, jobs, submitted, events,
                   attempts, checks>>

\* rsp = client.projects().locations().operations().get(name=name).execute()
\* and the two tests on it
WaitGet ==
    /\ pc = "get"
    /\ \E rsp \in {None, OperationStatus} :
         Fetched(rsp, wait_step(rsp, args.conditions))

\* sleep(sleep_sec)
WaitSleep ==
    /\ pc = "sleep"
    /\ pc' = "get"
    /\ result' = [result EXCEPT !.sleeps = counted(@)]
    /\ UNCHANGED <<cluster, last, args, gpu_spec, jobs, submitted, events,
                   attempts, checks>>

\* the operation moves on
OperationProgress ==
    /\ \E status \in NextStatus(OperationStatus) :
         events' = Append(events, status)
    /\ UNCHANGED <<cluster, last, pc, args, gpu_spec, jobs, submitted, attempts,
                   checks, result>>

NextWait ==
    \/ WaitGet
    \/ WaitSleep
    \/ OperationProgress

SpecWait == InitWait /\ [][NextWait]_vars

\* the interpreter keeps running the loop, and the operation keeps moving
\* until it is DONE
SpecWaitFair ==
    /\ SpecWait
    /\ WF_vars(WaitGet)
    /\ WF_vars(WaitSleep)
    /\ WF_vars(OperationProgress)

(***************************************************************************)
(* Properties of the handle (Spec).                                        *)
(***************************************************************************)
ConnectCalls == {"list_clusters", "list_pod_for_all_namespaces"}
MutatingCalls == {"create_namespaced_job", "create_namespaced_daemon_set",
                  "delete_cluster"}

\* the last call ran connect() on a handle with no cached descriptor
Resolving == last.connects = 1 /\ last.pre.gcp_cluster = NoneCluster

ListedNames == {last.listing.clusters[i].name : i \in 1..Len(last.listing.clusters)}

\* C1: the body of a gated operation (pods, jobs, submit_job,
\* apply_daemonset, delete) runs only with the connected flag true; when the
\* body did not run, the only remote calls issued are those of connect().
C1_BodyOnlyWhileConnected ==
    last.op \in GatedOps =>
        /\ last.body => (last.flag /\ cluster.connected)
        /\ ~last.body => Range(last.calls) \subseteq ConnectCalls

C1_Witness ==
    /\ last.op = "submit_job"
    /\ ~last.pre.connected
    /\ last.body
    /\ "create_namespaced_job" \in Range(last.calls)

\* C2: a gated operation called on a handle that is not connected attempts
\* connect() exactly once; if the attempt fails the operation returns its
\* error value, its body does not run and no remote mutation is issued.
C2_FailedConnectNoSideEffects ==
    (last.op \in GatedOps /\ ~last.pre.connected) =>
        /\ last.connects = 1
        /\ last.cret = "False" =>
              /\ ~last.body
              /\ last.ret = (IF last.op = "delete" THEN "False" ELSE None)
              /\ Range(last.calls) \cap MutatingCalls = {}

C2_Witness ==
    /\ last.op = "delete"
    /\ ~last.pre.connected
    /\ last.cret = "False"
    /\ last.ret = "False"

\* C3: with no cluster name given, connect() resolves a cluster only when
\* the listing holds exactly one cluster (and resolves to that one); when
\* the listing holds several, connect() fails, caches no descriptor and
\* leaves the handle disconnected.
C3_NoNameNeedsUniqueCluster ==
    (Resolving /\ last.pre.name = None) =>
        /\ cluster.gcp_cluster # NoneCluster =>
              /\ last.listing.ok
              /\ Len(last.listing.clusters) = 1
              /\ cluster.gcp_cluster = last.listing.clusters[1]
        /\ (last.listing.ok /\ Len(last.listing.clusters) > 1) =>
              /\ last.cret = "False"
              /\ cluster.gcp_cluster = NoneCluster
              /\ ~cluster.connected

C3_Witness ==
    /\ last.op = "connect"
    /\ Resolving
    /\ last.pre.name = None
    /\ last.listing.ok
    /\ Len(last.listing.clusters) = 2
    /\ last.cret = "False"

\* C4: with a cluster name given, connect() resolves to a listed cluster
\* whose name is exactly that name; if no listed cluster has it, connect()
\* fails, caches no descriptor and leaves the handle disconnected.
C4_NamedClusterExactMatch ==
    (Resolving /\ last.pre.name # None) =>
        /\ cluster.gcp_cluster # NoneCluster =>
              /\ cluster.gcp_cluster \in Range(last.listing.clusters)
              /\ cluster.gcp_cluster.name = last.pre.name
        /\ (last.listing.ok /\ last.pre.name \in ListedNames) =>
              cluster.gcp_cluster # NoneCluster
        /\ ~(last.listing.ok /\ last.pre.name \in ListedNames) =>
              /\ last.cret = "False"
              /\ cluster.gcp_cluster = NoneCluster
              /\ ~cluster.connected

C4_Witness ==
    /\ last.op = "connect"
    /\ Resolving
    /\ last.pre.name = "blueshift"
    /\ last.listing.ok
    /\ Len(last.listing.clusters) = 2
    /\ "blueshift" \notin ListedNames
    /\ last.cret = "False"

\* C5 as stated: with a descriptor cached, connect() returns success, issues
\* no list-clusters call and keeps the descriptor.
C5_CachedConnectSucceeds ==
    (last.op = "connect" /\ last.pre.gcp_cluster # NoneCluster) =>
        /\ last.ret = "True"
        /\ "list_clusters" \notin Range(last.calls)
        /\ cluster.gcp_cluster = last.pre.gcp_cluster

\* C5 amended: with a descriptor cached, the resolution step of connect()
\* short-circuits (no list-clusters call, the descriptor is kept), and
\* connect() returns success exactly when the connection test succeeds.
C5_CachedConnectSkipsListing ==
    (last.op = "connect" /\ last.pre.gcp_cluster # NoneCluster) =>
        /\ "list_clusters" \notin Range(last.calls)
        /\ cluster.gcp_cluster = last.pre.gcp_cluster
        /\ last.ret = "True" <=> last.pods_ok

C5_Witness ==
    /\ last.op = "connect"
    /\ last.pre.gcp_cluster # NoneCluster
    /\ ~last.pods_ok
    /\ last.ret = "False"

\* C6: once the cluster is resolved, connect() ends with the handle
\* connected if and only if the pod-listing call succeeds; if it fails,
\* connect() returns failure and the handle is disconnected.
C6_ConnectedIffPodListing ==
    (last.connects = 1 /\ cluster.gcp_cluster # NoneCluster) =>
        /\ cluster.connected <=> last.pods_ok
        /\ last.cret = "True" <=> last.pods_ok
        /\ "list_pod_for_all_namespaces" \in Range(last.calls)

C6_Witness ==
    /\ last.op = "connect"
    /\ last.pre.connected
    /\ cluster.gcp_cluster # NoneCluster
    /\ ~last.pods_ok
    /\ ~cluster.connected

\* C7: a connected handle has the zone and the name of its resolved
\* cluster: never the wildcard zone '-', never an unset name.
C7_ConnectedZoneAndNameResolved ==
    cluster.connected =>
        /\ cluster.gcp_cluster \in GCPClusters
        /\ cluster.zone = cluster.gcp_cluster.zone
        /\ cluster.zone # _ZONE_DEFAULT
        /\ cluster.name = cluster.gcp_cluster.name
        /\ cluster.name # None

C7_Witness ==
    /\ cluster.connected
    /\ last.pre.zone = _ZONE_DEFAULT
    /\ last.pre.name = None

(***************************************************************************)
(* Properties of the job submission pipeline (SpecSubmit).                 *)
(***************************************************************************)
CatalogCalls == {"compute.acceleratorTypes.list", "clusters.get",
                 "tpu.acceleratorTypes.list"}

Count(seq, x) == Cardinality({i \in 1..Len(seq) : seq[i] = x})

\* C8: if the cluster connection, the gpu validation or the tpu validation
\* fails, the run issues no create-job call and submits nothing.
C8_FailedValidationSubmitsNothing ==
    (\/ checks.connect = "False"
     \/ checks.gpu \in {"False", "raise KeyError"}
     \/ checks.tpu \in {"False", "None"}) =>
        /\ "create_namespaced_job" \notin Range(events)
        /\ attempts = <<>>
        /\ submitted = <<>>
        /\ result # "submitted"

C8_Witness ==
    /\ pc = "done"
    /\ checks.gpu = "False"
    /\ ~args.dry_run
    /\ result = None

\* C9 as stated: a request with both a gpu spec and a tpu spec is rejected
\* before any accelerator catalog query and before the image is generated.
C9_RejectedBeforeQueries ==
    (gpu_spec # NoneGPUSpec /\ args.tpu_spec # NoneTPUSpec) =>
        Range(events) \cap (CatalogCalls \cup {"generate_image_tag"}) = {}

\* C9 amended: a request with both a gpu spec and a tpu spec never creates,
\* prints or submits a job; convert_accel_spec rejects it only after the gpu
\* validation, the tpu validation (with their catalog queries) and the image
\* step have run, and a run that ends earlier was ended by a failed
\* connection or validation.
C9_RejectedBeforeJobs ==
    (gpu_spec # NoneGPUSpec /\ args.tpu_spec # NoneTPUSpec) =>
        /\ jobs = <<>> /\ attempts = <<>> /\ submitted = <<>>
        /\ Range(events) \cap {"create_namespaced_job", "print job"} = {}
        /\ pc \notin {"create_jobs", "dry_run", "submit"}
        /\ checks.accel = "None" =>
              /\ checks.gpu = "True" /\ checks.tpu = "True"
              /\ CatalogCalls \subseteq Range(events)
              /\ ~args.image_tag => "generate_image_tag" \in Range(events)
        /\ pc = "done" =>
              /\ result \in {None, "raise KeyError"}
              /\ \/ checks.accel = "None"
                 \/ checks.connect = "False"
                 \/ checks.gpu \in {"False", "raise KeyError"}
                 \/ checks.tpu \in {"False", "None"}

C9_Witness ==
    /\ pc = "done"
    /\ gpu_spec # NoneGPUSpec
    /\ args.tpu_spec # NoneTPUSpec
    /\ checks.accel = "None"
    /\ "generate_image_tag" \in Range(events)

\* C10: the submit loop passes every generated job to submit_job exactly
\* once, in generation order, goes on after a failure, and returns exactly
\* the jobs whose submission succeeded, in that order.
Succeeded == SelectSeq(attempts, LAMBDA a : a.sj # None)

C10_PartialSubmission ==
    /\ pc = "submit" =>
          /\ Len(attempts) + Len(jobs) = args.experiments
          /\ \A i \in 1..Len(attempts) : attempts[i].job = create_simple_job(i)
    /\ (pc = "done" /\ result = "submitted") =>
          /\ Len(attempts) = args.experiments
          /\ \A i \in 1..Len(attempts) : attempts[i].job = create_simple_job(i)
          /\ Count(events, "create_namespaced_job") = args.experiments
          /\ submitted = [i \in 1..Len(Succeeded) |-> Succeeded[i].job]
          /\ Len(submitted) = args.experiments
                - Cardinality({i \in 1..Len(attempts) : attempts[i].sj = None})

C10_Witness ==
    /\ pc = "done"
    /\ result = "submitted"
    /\ args.experiments = 3
    /\ attempts[1].sj # None
    /\ attempts[2].sj = None
    /\ attempts[3].sj # None
    /\ submitted = <<create_simple_job(1), create_simple_job(3)>>

\* C11: in dry-run mode the run prints every generated job and returns
\* None: nothing is handed to submit_job, no create-job call is issued and
\* no list of submitted jobs is returned.
C11_DryRunRendersAndStops ==
    args.dry_run =>
        /\ "create_namespaced_job" \notin Range(events)
        /\ attempts = <<>> /\ submitted = <<>>
        /\ pc # "submit"
        /\ result # "submitted"
        /\ pc = "dry_run" =>
              Count(events, "print job") + Len(jobs) = args.experiments
        /\ (pc = "done" /\ checks.accel = "True") =>
              /\ Count(events, "print job") = args.experiments
              /\ result = None

C11_Witness ==
    /\ args.dry_run
    /\ pc = "done"
    /\ checks.accel = "True"
    /\ args.experiments = 3
    /\ Count(events, "print job") = 3

\* C15: a tpu request passes validation if and only if its (kind, count)
\* pair is a member of the list get_tpu_types returned; a smaller count of a
\* listed kind that is not itself listed is rejected; when the list cannot
\* be fetched, or the spec is rejected, the run returns None and no job is
\* created, printed or submitted.
C15_TpuExactMembership ==
    checks.tpu # "n/a" =>
        /\ checks.tpu = "True" <=>
              /\ checks.available_tpu.ok
              /\ \E i \in 1..Len(checks.available_tpu.specs) :
                    checks.available_tpu.specs[i] = args.tpu_spec
        /\ (/\ checks.available_tpu.ok
            /\ args.tpu_spec \notin Range(checks.available_tpu.specs)
            /\ \E i \in 1..Len(checks.available_tpu.specs) :
                  /\ checks.available_tpu.specs[i].tpu = args.tpu_spec.tpu
                  /\ checks.available_tpu.specs[i].count > args.tpu_spec.count) =>
              checks.tpu = "False"
        /\ ~checks.available_tpu.ok => checks.tpu = "None"
        /\ checks.tpu # "True" =>
              /\ pc = "done" /\ result = None
              /\ jobs = <<>> /\ attempts = <<>> /\ submitted = <<>>
              /\ Range(events) \cap
                    {"generate_image_tag", "print job", "create_namespaced_job"} = {}

C15_Witness ==
    /\ pc = "done"
    /\ args.tpu_spec = [tpu |-> "V3", count |-> 8]
    /\ checks.available_tpu.ok
    /\ checks.available_tpu.specs = <<[tpu |-> "V3", count |-> 32]>>
    /\ checks.tpu = "False"
    /\ result = None

(***************************************************************************)
(* Properties of the functions under direct calls (SpecCalls).             *)
(***************************************************************************)
\* the catalog l lists the kind of spec with a maximum of at least its count
Allows(l, spec) ==
    /\ l.ok
    /\ \E i \in 1..Len(l.specs) :
          l.specs[i].gpu = spec.gpu /\ spec.count <= l.specs[i].count

\* the catalog l lists the kind of spec with a maximum below its count
Exceeds(l, spec) ==
    /\ l.ok
    /\ \E i \in 1..Len(l.specs) :
          l.specs[i].gpu = spec.gpu /\ spec.count > l.specs[i].count

ValidatedGpu == args.fn = "validate_gpu_spec" /\ args.gpu_spec # NoneGPUSpec

\* C12: for a gpu spec that is not None, validate_gpu_spec returns True if
\* and only if the zone catalog and the limits the cluster reports (fetched
\* over a connected handle) both list the kind with a maximum of at least
\* the requested count.
C12_ValidIffWithinBothLimits ==
    ValidatedGpu =>
        (result.ret = "True" <=>
            /\ Allows(args.zone_gpus, args.gpu_spec)
            /\ cluster.connected
            /\ Allows(args.cluster_gpus, args.gpu_spec))

C12_Witness ==
    /\ ValidatedGpu
    /\ args.gpu_spec = [gpu |-> "K80", count |-> 2]
    /\ ~args.connected
    /\ Len(args.zone_gpus.specs) = 2
    /\ Len(args.cluster_gpus.specs) = 2
    /\ result.ret = "True"

\* C13: the zone limits are checked before the cluster limits: a count above
\* the zone maximum of its kind fails as a zone violation whatever the
\* cluster reports, and the cluster limits are not fetched.
C13_ZoneLimitFirst ==
    ValidatedGpu =>
        /\ result.calls # <<>> /\ result.calls[1] = "compute.acceleratorTypes.list"
        /\ Exceeds(args.zone_gpus, args.gpu_spec) =>
              /\ result.ret = "False"
              /\ result.failed = "zone"
              /\ result.calls = <<"compute.acceleratorTypes.list">>
              /\ cluster.connected = args.connected

C13_Witness ==
    /\ ValidatedGpu
    /\ args.gpu_spec = [gpu |-> "P100", count |-> 2]
    /\ args.zone_gpus.specs = <<[gpu |-> "P100", count |-> 1]>>
    /\ args.cluster_gpus.specs = <<[gpu |-> "P100", count |-> 2]>>
    /\ result.ret = "False"
    /\ result.failed = "zone"

\* C14: validate_gpu_spec(None) returns True and issues no remote call: no
\* catalog query, no cluster query, no connection attempt.
C14_CpuOnlyAlwaysValid ==
    (args.fn = "validate_gpu_spec" /\ args.gpu_spec = NoneGPUSpec) =>
        /\ result.ret = "True"
        /\ result.calls = <<>>
        /\ cluster.connected = args.connected

C14_Witness ==
    /\ args.fn = "validate_gpu_spec"
    /\ args.gpu_spec = NoneGPUSpec
    /\ ~args.connected
    /\ result.ret = "True"

\* C16: convert_accel_spec(gpu, tpu) returns None when both specs are given,
\* the kind and count of the one spec that is given, and (None, 1) when
\* neither is.
C16_ConvertAccelSpec ==
    args.fn = "convert_accel_spec" =>
        /\ (args.gpu_spec # NoneGPUSpec /\ args.tpu_spec # NoneTPUSpec) =>
              ~result.ok
        /\ (args.gpu_spec # NoneGPUSpec /\ args.tpu_spec = NoneTPUSpec) =>
              /\ result.ok
              /\ result.accel = args.gpu_spec.gpu
              /\ result.count = args.gpu_spec.count
        /\ (args.gpu_spec = NoneGPUSpec /\ args.tpu_spec # NoneTPUSpec) =>
              /\ result.ok
              /\ result.accel = args.tpu_spec.tpu
              /\ result.count = args.tpu_spec.count
        /\ (args.gpu_spec = NoneGPUSpec /\ args.tpu_spec = NoneTPUSpec) =>
              /\ result.ok
              /\ result.accel = None
              /\ result.count = 1

C16_Witness ==
    /\ args.fn = "convert_accel_spec"
    /\ args.gpu_spec = NoneGPUSpec
    /\ args.tpu_spec = [tpu |-> "V3", count |-> 32]
    /\ result.ok
    /\ result.count = 32

\* the polls of the scripted wait that fetched a status in conditions, and
\* those whose fetch failed
TerminalAt == {i \in 1..Len(args.rsps) : args.rsps[i] \in args.conditions}
ErrorAt == {i \in 1..Len(args.rsps) : args.rsps[i] = None}
Before(k, S) == \E i \in S : i < k

\* C17: over a sequence of fetched statuses, _wait_for_operation returns
\* only at a status in conditions: if the first such status is the k-th, the
\* wait polls k times, sleeps after each poll but the k-th, and returns the
\* k-th response; with no such status it has not returned.
C17_WaitReturnsAtFirstTerminal ==
    (args.fn = "_wait_for_operation" /\ ErrorAt = {}) =>
        /\ \A k \in TerminalAt :
              ~Before(k, TerminalAt) =>
                  /\ result.returned
                  /\ result.polls = k
                  /\ result.sleeps = k - 1
                  /\ result.rsp = [status |-> args.rsps[k], at |-> k]
        /\ result.returned => result.rsp.status \in args.conditions
        /\ TerminalAt = {} =>
              /\ ~result.returned
              /\ result.polls = Len(args.rsps)
              /\ result.sleeps = Len(args.rsps)

C17_Witness ==
    /\ args.fn = "_wait_for_operation"
    /\ args.rsps = <<"PENDING", "PENDING", "DONE">>
    /\ result.returned
    /\ result.polls = 3
    /\ result.sleeps = 2
    /\ result.rsp.status = "DONE"

\* C18: when a fetch fails before any status in conditions was fetched,
\* _wait_for_operation returns None at that poll: the failed fetch is its
\* last poll and no sleep follows it.
C18_WaitFetchErrorReturnsNone ==
    args.fn = "_wait_for_operation" =>
        \A k \in ErrorAt :
            (~Before(k, ErrorAt) /\ ~Before(k, TerminalAt)) =>
                /\ result.returned
                /\ result.rsp = NoneRsp
                /\ result.polls = k
                /\ result.sleeps = k - 1

C18_Witness ==
    /\ args.fn = "_wait_for_operation"
    /\ args.rsps = <<"PENDING", None, "DONE">>
    /\ result.returned
    /\ result.rsp = NoneRsp
    /\ result.polls = 2

\* C20: create_simple_experiment_jobs gives one job per experiment, in the
\* order of the experiments, the i-th job built from the i-th experiment;
\* the first pass over it is given all of them, any later pass none.
C20_OneJobPerExperimentSinglePass ==
    IsGenerator =>
        /\ \A p \in 1..Len(attempts) :
              IF p = 1
              THEN /\ Len(attempts[p]) = Len(args.experiments)
                   /\ \A i \in 1..Len(args.experiments) :
                         attempts[p][i].args = args.experiments[i]
              ELSE attempts[p] = <<>>
        /\ Len(attempts) = 0 =>
              /\ Len(submitted) + Len(jobs) = Len(args.experiments)
              /\ \A i \in 1..Len(submitted) :
                    submitted[i].args = args.experiments[i]
              /\ \A i \in 1..Len(jobs) :
                    jobs[i].args = args.experiments[Len(submitted) + i]
        /\ Len(attempts) > 0 => (jobs = <<>> /\ submitted = <<>>)

C20_Witness ==
    /\ IsGenerator
    /\ args.experiments = <<"b", "a", "b">>
    /\ Len(attempts) = 2
    /\ Len(attempts[1]) = 3
    /\ attempts[2] = <<>>

(***************************************************************************)
(* Properties of cluster creation (SpecCreate).                            *)
(***************************************************************************)
DaemonsetCalls == {"requests.get", "create_namespaced_daemon_set"}

\* C19 as stated: the new cluster is connected to and the daemonset applied
\* only after the create operation reached DONE; when the operation ends
\* ABORTING or its status fetch fails, the run reports that creating the
\* cluster failed, returns, and applies no daemonset.
C19_FailedOperationReported ==
    /\ (checks.connect # "n/a" \/ Range(events) \cap DaemonsetCalls # {}) =>
          checks.wait = "DONE"
    /\ checks.wait \in {"ABORTING", "fetch error"} =>
          /\ pc = "done"
          /\ result = None
          /\ checks.error = "error creating cluster"
          /\ Range(events) \cap DaemonsetCalls = {}

\* C19, what the code does: nothing follows an operation that did not reach
\* DONE; ABORTING is reported as an error, while a failed status fetch ends
\* the run with a TypeError and no report.
C19_NothingAfterFailedOperation ==
    /\ (checks.connect # "n/a" \/ Range(events) \cap DaemonsetCalls # {}) =>
          checks.wait = "DONE"
    /\ checks.wait \in {"ABORTING", "fetch error"} =>
          /\ pc = "done"
          /\ Range(events) \cap DaemonsetCalls = {}
    /\ checks.wait = "ABORTING" =>
          (result = None /\ checks.error = "error creating cluster")
    /\ checks.wait = "fetch error" =>
          (result = "raise TypeError" /\ checks.error = "none")

C19_Witness ==
    /\ pc = "done"
    /\ checks.wait = "fetch error"
    /\ result = "raise TypeError"
    /\ Count(events, "operations.get") = 2

Sanitized == args # NoCallYet /\ args.fn = "_sanitize_job_name"

\* the result is a DNS-1123 name: not empty, lower case, only alphanumerics,
\* '-' and '.', an alphanumeric at both ends
Dns1123(name) ==
    /\ Len(name) > 0
    /\ \A i \in 1..Len(name) :
          /\ name[i] \notin Uppercase
          /\ name[i] \in Lowercase \cup Digits \cup {"-", "."}
    /\ name[1] \in Lowercase \cup Digits
    /\ name[Len(name)] \in Lowercase \cup Digits

\* C22 as stated: for every job name, _sanitize_job_name returns a DNS-1123
\* name.
C22_SanitizedForAllNames ==
    Sanitized => (result.ret = "str" /\ Dns1123(result.name))

\* C22, what the code does: every name that is not empty is turned into a
\* DNS-1123 name; the empty name raises IndexError.
C22_SanitizedUnlessEmpty ==
    Sanitized =>
        IF args.name = <<>>
        THEN result.ret = "raise IndexError"
        ELSE result.ret = "str" /\ Dns1123(result.name)

C22_Witness ==
    /\ Sanitized
    /\ args.name = <<"!", "M", " ">>
    /\ result.name = <<"j", "o", "b", "-", "-", "m", "-", "-", "0">>

\* C23 as stated: _sanitize_job_name("My Job!") returns "job-my-job-0".
C23_MyJobPrefixed ==
    (Sanitized /\ args.name = MyJob) =>
        result.name = <<"j", "o", "b", "-", "m", "y", "-", "j", "o", "b", "-", "0">>

\* C23 amended: _sanitize_job_name("My Job!") returns "my-job--0": the first
\* character is alphanumeric, so no prefix is added; the '!' at the end
\* brings the suffix '-0' and is itself replaced by '-'.
C23_MyJobSuffixed ==
    (Sanitized /\ args.name = MyJob) =>
        /\ result.ret = "str"
        /\ result.name = <<"m", "y", "-", "j", "o", "b", "-", "-", "0">>

C23_Witness ==
    /\ Sanitized
    /\ args.name = MyJob
    /\ result.name[1] = "m"
    /\ Len(result.name) = 9

\* how many limits the claim has one quota produce, and how many those
\* before the i-th quota produce
Emits(q) ==
    IF q.metric = "CPUS" THEN 2
    ELSE IF q.metric \in {"NVIDIA_V100_GPUS", "NVIDIA_K80_GPUS"} THEN 1
    ELSE 0

RECURSIVE EmittedBefore(_, _)
EmittedBefore(quotas, i) ==
    IF i <= 1 THEN 0
    ELSE EmittedBefore(quotas, i - 1) + Emits(quotas[i - 1])

\* C24: _generate_resource_limits turns the quota list into limits in input
\* order: CPUS with limit L gives cpu = L then memory = L * 64, a metric
\* NVIDIA_<KIND>_GPUS gives nvidia-tesla-<kind> = L, any other metric gives
\* nothing; [CPUS 10, NVIDIA_V100_GPUS 4] gives [cpu 10, memory 640,
\* nvidia-tesla-v100 4].
C24_QuotaToLimits ==
    (args # NoCallYet /\ args.fn = "_generate_resource_limits" /\ args.quotas.ok) =>
        /\ result.ok
        /\ Len(result.limits)
              = EmittedBefore(args.quotas.quotas, Len(args.quotas.quotas) + 1)
        /\ \A i \in 1..Len(args.quotas.quotas) :
              /\ args.quotas.quotas[i].metric = "CPUS" =>
                    /\ result.limits[EmittedBefore(args.quotas.quotas, i) + 1]
                          = [resourceType |-> "cpu",
                             maximum |-> args.quotas.quotas[i].limit]
                    /\ result.limits[EmittedBefore(args.quotas.quotas, i) + 2]
                          = [resourceType |-> "memory",
                             maximum |-> args.quotas.quotas[i].limit * 64]
              /\ args.quotas.quotas[i].metric = "NVIDIA_V100_GPUS" =>
                    result.limits[EmittedBefore(args.quotas.quotas, i) + 1]
                       = [resourceType |-> "nvidia-tesla-v100",
                          maximum |-> args.quotas.quotas[i].limit]
              /\ args.quotas.quotas[i].metric = "NVIDIA_K80_GPUS" =>
                    result.limits[EmittedBefore(args.quotas.quotas, i) + 1]
                       = [resourceType |-> "nvidia-tesla-k80",
                          maximum |-> args.quotas.quotas[i].limit]
        /\ args.quotas.quotas = <<[metric |-> "CPUS", limit |-> 10],
                                  [metric |-> "NVIDIA_V100_GPUS", limit |-> 4]>> =>
              result.limits = <<[resourceType |-> "cpu", maximum |-> 10],
                                [resourceType |-> "memory", maximum |-> 640],
                                [resourceType |-> "nvidia-tesla-v100", maximum |-> 4]>>

C24_Witness ==
    /\ args # NoCallYet
    /\ args.fn = "_generate_resource_limits"
    /\ args.quotas.quotas = <<[metric |-> "CPUS", limit |-> 10],
                              [metric |-> "NVIDIA_V100_GPUS", limit |-> 4]>>
    /\ Len(result.limits) = 3

LimitsOf == args # NoCallYet /\ args.fn = "container_limits"

\* C25: container_limits returns None for a cpu job, {nvidia.com/gpu: count}
\* for a gpu, and for a tpu the one entry cloud-tpus.google.com/<kind> =
\* count, its key prefixed 'preemptible-' if and only if count is 8 and
\* preemptible tpus are asked for; no result has a gpu and a tpu entry.
C25_ContainerLimits ==
    LimitsOf =>
        /\ args.accelerator = None => (~result.ok /\ result.limits = {})
        /\ args.accelerator \in GPU =>
              /\ result.ok
              /\ result.limits =
                    {[key |-> [resource |-> "nvidia.com/gpu", prefix |-> "", kind |-> ""],
                      value |-> args.count]}
        /\ args.accelerator \in TPU =>
              /\ result.ok
              /\ Cardinality(result.limits) = 1
              /\ \A e \in result.limits :
                    /\ e.key.resource = "cloud-tpus.google.com"
                    /\ e.key.kind = (IF args.accelerator = "V2" THEN "v2" ELSE "v3")
                    /\ e.value = args.count
                    /\ e.key.prefix \in {"", "preemptible-"}
                    /\ e.key.prefix = "preemptible-"
                          <=> (args.count = 8 /\ args.preemptible_tpu)
        /\ ~(/\ \E e \in result.limits : e.key.resource = "nvidia.com/gpu"
             /\ \E e \in result.limits : e.key.resource = "cloud-tpus.google.com")

C25_Witness ==
    /\ LimitsOf
    /\ args.accelerator = "V3"
    /\ args.count = 32
    /\ args.preemptible_tpu
    /\ \E e \in result.limits : e.key.prefix = "" /\ e.value = 32

\* a direct call of _validate_gpu_spec_against_limits whose spec asks for a
\* kind the limits map has no key for
AbsentKind ==
    /\ args # NoCallYet
    /\ args.fn = "_validate_gpu_spec_against_limits"
    /\ args.gpu_spec.gpu \notin Range(args.keys)

\* C26 as stated: when the requested kind is not in the limits map, the
\* diagnostic of _validate_gpu_spec_against_limits lists every kind of the
\* map.
C26_DiagnosticListsEveryKind ==
    AbsentKind => result.printed = args.keys

\* C26, what the code does: when the requested kind is not in the limits
\* map, the diagnostic lists the first kind of the map and no other.
C26_DiagnosticListsFirstKind ==
    AbsentKind =>
        result.printed = (IF args.keys = <<>> THEN <<>> ELSE <<args.keys[1]>>)

C26_Witness ==
    /\ AbsentKind
    /\ Len(args.keys) = 2
    /\ Len(result.printed) = 1

\* C27 as stated: _validate_gpu_spec_against_limits returns False, and does
\* not raise, for every spec whose kind is absent from the limits map, the
\* empty map included.
C27_AbsentKindReturnsFalse ==
    AbsentKind => result.ret = "False"

\* C27, what the code does: for a spec whose kind is absent from the limits
\* map the function returns False when the map has a key and raises KeyError
\* when the map is empty.
C27_AbsentKindRaisesOnEmptyMap ==
    AbsentKind =>
        /\ args.keys # <<>> => result.ret = "False"
        /\ args.keys = <<>> => result.ret = "raise KeyError"

C27_Witness ==
    /\ AbsentKind
    /\ args.keys = <<>>
    /\ result.ret = "raise KeyError"

\* C28: _wait_for_operation has no attempt bound: after a fetch that
\* succeeds with a status outside conditions it sleeps and polls again,
\* however many polls it has made; it returns exactly when a fetch fails or
\* the fetched status is in conditions; and when the operation eventually
\* reports a terminal status, the wait eventually returns.
C28_WaitReturns ==
    /\ [](pc = "returned" =>
             (result.rsp = NoneRsp \/ result.rsp.status \in args.conditions))
    /\ [][(pc = "get" /\ pc' # "get") =>
             /\ pc' = "returned"
                   <=> (result'.rsp = NoneRsp
                           \/ result'.rsp.status \in args.conditions)
             /\ pc' = "sleep"
                   <=> (result'.rsp # NoneRsp
                           /\ result'.rsp.status \notin args.conditions)]_vars
    /\ [][(pc = "sleep" /\ pc' # "sleep") => pc' = "get"]_vars
    /\ [][pc = "returned" => pc' = "returned"]_vars
    /\ (OperationStatus \in args.conditions) ~> (pc = "returned")
    /\ <>(pc = "returned")

C28_Witness ==
    /\ pc = "returned"
    /\ result.polls = MaxPolls
    /\ result.sleeps = MaxPolls
    /\ result.rsp.status = "DONE"
    /\ Len(events) > 1

\* a delete() on a connected handle whose request was accepted and whose
\* wait returned
DeleteWaited ==
    /\ args # NoCallYet
    /\ args.fn = "delete"
    /\ args.connected
    /\ args.op_ok
    /\ wait_for_operation(args.rsps, DefaultConditions).returned

\* C29 as stated: delete on a connected handle issues the delete request,
\* waits for the operation, and reports successful deletion if and only if
\* the terminal status of the operation is DONE; otherwise it reports a
\* deletion error.
C29_DeleteReportsOutcome ==
    DeleteWaited =>
        /\ result.calls[1] = "delete_cluster"
        /\ result.report = "successfully deleted cluster"
              <=> wait_for_operation(args.rsps, DefaultConditions).rsp.status = "DONE"
        /\ wait_for_operation(args.rsps, DefaultConditions).rsp.status # "DONE"
              => result.report = "error deleting cluster"

\* C29, what the code does: delete on a connected handle issues the delete
\* request and waits for the operation; once the wait has returned the
\* method raises NameError and reports nothing, whatever the status; a
\* request that is not accepted is reported as a deletion error.
C29_DeleteRaisesAfterWait ==
    (args # NoCallYet /\ args.fn = "delete" /\ args.connected) =>
        /\ result.body
        /\ result.calls[1] = "delete_cluster"
        /\ ~args.op_ok =>
              /\ result.calls = <<"delete_cluster">>
              /\ result.report = "error deleting cluster"
              /\ result.ret = None
        /\ args.op_ok =>
              /\ Len(result.calls)
                    = 1 + wait_for_operation(args.rsps, DefaultConditions).polls
              /\ result.report = "none"
        /\ DeleteWaited => result.ret = "raise NameError"

C29_Witness ==
    /\ DeleteWaited
    /\ wait_for_operation(args.rsps, DefaultConditions).rsp.status = "DONE"
    /\ result.ret = "raise NameError"
    /\ result.report = "none"

\* the last call ran connect() and connect() returned failure
ConnectFailed == last.connects >= 1 /\ last.cret = "False"

\* C30: after any connect() that returns failure the connected flag of the
\* handle is false, also when the handle was connected before the call; a
\* gated operation on a handle that is not connected calls connect() once;
\* and failure is not absorbing: a connect() after a failed one succeeds and
\* leaves the handle connected when the cluster resolves (a cached
\* descriptor, the only cluster listed for a handle without a name, or a
\* listed cluster of the handle's name) and the connection test succeeds.
C30_FailedConnectNotAbsorbing ==
    /\ [](ConnectFailed => ~cluster.connected)
    /\ [][(~cluster.connected /\ last'.op \in GatedOps) => last'.connects = 1]_vars
    /\ [][(/\ ConnectFailed
           /\ last'.op = "connect"
           /\ last'.pods_ok
           /\ \/ cluster.gcp_cluster # NoneCluster
              \/ /\ last'.listing.ok
                 /\ \/ cluster.name = None /\ Len(last'.listing.clusters) = 1
                    \/ \E i \in 1..Len(last'.listing.clusters) :
                          cluster.name = last'.listing.clusters[i].name)
              => (cluster'.connected /\ last'.cret = "True")]_vars

C30_Witness ==
    /\ last.op = "connect"
    /\ last.pre.connected
    /\ last.cret = "False"
    /\ ~cluster.connected

====
